---- MODULE Spec2Model ----
(***************************************************************************)
(* Synchronization engine of the prediction-market indexer:                *)
(*   - BatchSyncManager    (catalog upserts, linking, audits, trades)      *)
(*   - RealtimeSyncManager (WebSocket clients, price buffer, flush)        *)
(*   - BackfillManager     (historical price import)                       *)
(* The relational store is modelled as tables: markets and events are      *)
(* functions from primary key to row, price_history and trades are bags    *)
(* of rows (their uniqueness rules are enforced by the insert operators,   *)
(* as the unique indexes enforce them in the database).                    *)
(***************************************************************************)
EXTENDS Integers, Sequences, FiniteSets, Bags, TLC

\* ------------------------------------------------------------------ bounds
\* The clock (Date.now / NOW()) runs over 0..MaxTime.
MaxTime == 1
\* Price-change messages the feed delivers in one behaviour.
MaxMessages == 2

\* Prices are kept in hundredths: the program's 1 is One here.
One == 100

\* SQL NULL of a text column.
NULL == "NULL"

VARIABLES
    markets,            \* table markets: id -> row
    events,             \* table events: id -> row
    eventMarketPairs,   \* BatchSyncManager.eventMarketPairs
    audit,              \* the locals of the auditClobTradability call in flight
    priceHistory,       \* table price_history: a bag of rows
    tokenToMarket,      \* RealtimeSyncManager.tokenToMarket
    priceBuffer,        \* RealtimeSyncManager.priceBuffer (a Map, in insertion order)
    isFlushingPrices,   \* RealtimeSyncManager.isFlushingPrices
    flush,              \* the locals of the flushPrices call in flight
    flushLog,           \* what the flushes so far did (history, for the claims)
    backfill,           \* the locals of the backfillMarketHistory call in flight
    received,           \* number of price-change messages delivered so far
    now,                \* the clock
    trades,             \* table trades: a bag of rows
    isSyncingTrades,    \* BatchSyncManager.isSyncingTrades
    tradesSync,         \* the locals of the syncAllTrades call in flight
    subscribedTokens,   \* RealtimeSyncManager.subscribedTokens (a Set, in insertion order)
    shouldReconnect,    \* RealtimeSyncManager.shouldReconnect
    clients,            \* RealtimeSyncManager.clients: index -> WsClient
    sockets,            \* the WebSocket objects created so far: number -> socket
    reconnectTimers,    \* pending scheduleReconnect timers per client
    pricesStatus,       \* lastPublishedPricesStatus, and what the last publishPricesStatus issued
    syncState,          \* table sync_state: entity -> row
    isSyncing,          \* BatchSyncManager.isSyncingEvents / isSyncingMarkets
    syncRun,            \* the locals of the syncEvents / syncMarkets call in flight
    initialSync,        \* the locals of the runInitialSync call in flight
    marketsSynced,      \* pending onMarketsSynced callbacks (resubscribe calls)
    catalog,            \* what the Gamma API serves: the events and the markets
    cleanup,            \* the locals of the runCleanup call in flight
    config,             \* getConfig(): the flags the sync and the cleanup read
    orchestrator,       \* SyncOrchestrator: isRunning, cleanupInterval, where start() and stop() are
    timers,             \* the timers of startPeriodicSync and startCleanupJob: intervals, timeouts
    realtime,           \* RealtimeSyncManager.flushInterval and where stop() is
    search,             \* the text columns and search_vector of the catalog rows
    lastOp              \* the operation the last step performed, with its input

hostVars == <<orchestrator, timers, realtime, search, initialSync>>
runCore == <<isSyncing, syncRun, marketsSynced, catalog, cleanup, config, search>>
runVars == <<runCore, hostVars>>
batchVars == <<eventMarketPairs, audit, runVars>>
flushVars == <<tokenToMarket, priceBuffer, isFlushingPrices, flush, flushLog>>
tradeVars == <<trades, isSyncingTrades, tradesSync, syncState>>
wsVars == <<shouldReconnect, clients, sockets, reconnectTimers, pricesStatus>>
vars == <<markets, events, eventMarketPairs, audit, priceHistory, tokenToMarket,
          priceBuffer, isFlushingPrices, flush, flushLog, backfill, received,
          now, trades, isSyncingTrades, tradesSync, subscribedTokens,
          shouldReconnect, clients, sockets, reconnectTimers, pricesStatus, lastOp,
          syncState, isSyncing, syncRun, marketsSynced, catalog, cleanup, config,
          orchestrator, timers, realtime, search, initialSync>>

Op(name, result, arg) == [op |-> name, result |-> result, arg |-> arg]

\* ------------------------------------------------------------ small helpers
Range(s) == {s[i] : i \in 1..Len(s)}

Min(a, b) == IF a < b THEN a ELSE b

\* Array.prototype.indexOf, 1-based; 0 when absent (-1 in the program).
IndexOf(s, x) ==
    IF \E i \in 1..Len(s) : s[i] = x
    THEN CHOOSE i \in 1..Len(s) : s[i] = x /\ \A j \in 1..(i - 1) : s[j] # x
    ELSE 0

\* `v ?? d` for an optional boolean of a catalog payload ("true", "false" or
\* "undefined").
Coalesce(v, d) == IF v = "undefined" THEN d ELSE v = "true"

\* A JSON-encoded string field of a raw catalog market: a string that parses
\* to an array, a string that does not parse, or no string at all.
Json(v) == [kind |-> "json", value |-> v]
Garbage == [kind |-> "garbage", value |-> <<>>]
Absent == [kind |-> "absent", value |-> <<>>]

\* --------------------------------------------------------- catalog client
\* transformMarket: raw API market -> GammaMarket. A price that is absent is
\* `undefined`, written as the empty sequence; a present one is <<p>>.
transformMarket(raw) ==
    LET outcomeNames == IF raw.outcomes.kind = "json" THEN raw.outcomes.value
                        ELSE <<"Yes", "No">>
        outcomePrices == IF raw.outcomePrices.kind = "json" THEN raw.outcomePrices.value
                         ELSE <<>>
        tokenIds == IF raw.clobTokenIds.kind = "json" THEN raw.clobTokenIds.value
                    ELSE <<>>
    IN  [ id |-> raw.id,
          condition_id |-> raw.conditionId,
          outcomes |-> [i \in 1..Len(outcomeNames) |->
                          [outcome |-> outcomeNames[i],
                           price |-> IF i <= Len(outcomePrices)
                                     THEN <<outcomePrices[i]>> ELSE <<>>]],
          end_date_iso |-> raw.endDateIso,
          closed |-> raw.closed,
          active |-> raw.active,
          archived |-> raw.archived,
          volume_24hr |-> raw.volume24hr,
          \* tokens is undefined when there are no token ids; `tokens?.map(..) ?? []`
          \* reads it back as the empty list
          tokens |-> tokenIds ]

\* ------------------------------------------------------ BatchSyncManager
\* upsertMarketsBatch: the row built for one GammaMarket.
NewMarket(market) ==
    [ id |-> market.id,
      conditionId |-> market.condition_id,
      outcomes |-> [i \in 1..Len(market.outcomes) |-> market.outcomes[i].outcome],
      outcomeTokenIds |-> market.tokens,
      outcomePrices |-> [i \in 1..Len(market.outcomes) |->
                            IF market.outcomes[i].price = <<>> THEN 0
                            ELSE market.outcomes[i].price[1]],
      volume24hr |-> market.volume_24hr,
      endDateIso |-> market.end_date_iso,
      active |-> Coalesce(market.active, TRUE),
      closed |-> Coalesce(market.closed, FALSE),
      archived |-> Coalesce(market.archived, FALSE) ]

\* INSERT of a market row that has no conflict: the values as given, event_id
\* left at its default.
InsertedMarket(v) ==
    [ eventId |-> NULL,
      conditionId |-> v.conditionId,
      outcomes |-> v.outcomes,
      outcomeTokenIds |-> v.outcomeTokenIds,
      outcomePrices |-> v.outcomePrices,
      volume24hr |-> v.volume24hr,
      endDateIso |-> v.endDateIso,
      active |-> v.active,
      closed |-> v.closed,
      archived |-> v.archived ]

\* The merged `closed` / `archived` of ON CONFLICT DO UPDATE.
MergeFlagDropExisting(existing, excluded) == excluded

MergeFlag(existing, excluded) == existing \/ excluded

\* The merged `active` of ON CONFLICT DO UPDATE (the CASE expression).
MergeActive(row, excluded) ==
    IF row.closed = TRUE \/ excluded.closed = TRUE THEN FALSE
    ELSE IF row.archived = TRUE \/ excluded.archived = TRUE THEN FALSE
    ELSE excluded.active

\* A conflicting row replaced by the values of the INSERT, defaults included.
MergedMarketAsInserted(row, excluded) == InsertedMarket(excluded)

\* ON CONFLICT (id) DO UPDATE SET ... of upsertMarketsBatch; event_id and
\* condition_id are not in the SET list.
MergedMarket(row, excluded) ==
    [ eventId |-> row.eventId,
      conditionId |-> row.conditionId,
      outcomes |-> excluded.outcomes,
      outcomeTokenIds |-> excluded.outcomeTokenIds,
      outcomePrices |-> excluded.outcomePrices,
      volume24hr |-> excluded.volume24hr,
      endDateIso |-> excluded.endDateIso,
      active |-> MergeActive(row, excluded),
      closed |-> MergeFlag(row.closed, excluded.closed),
      archived |-> MergeFlag(row.archived, excluded.archived) ]

\* The markets table after the multi-row upsert of one page (a page maps each
\* market id it carries to the GammaMarket the client returned for it).
UpsertedMarkets(table, page) ==
    [ id \in DOMAIN table \cup DOMAIN page |->
        IF id \notin DOMAIN page THEN table[id]
        ELSE IF id \in DOMAIN table THEN MergedMarket(table[id], NewMarket(page[id]))
        ELSE InsertedMarket(NewMarket(page[id])) ]

\* upsertEventsBatch: the row built for one GammaEvent.
NewEvent(event) ==
    [ id |-> event.id,
      endDate |-> event.end_date,
      active |-> Coalesce(event.active, TRUE),
      closed |-> Coalesce(event.closed, FALSE),
      archived |-> Coalesce(event.archived, FALSE) ]

InsertedEvent(v) ==
    [ endDate |-> v.endDate,
      active |-> v.active,
      closed |-> v.closed,
      archived |-> v.archived ]

MergedEvent(row, excluded) ==
    [ endDate |-> excluded.endDate,
      active |-> MergeActive(row, excluded),
      closed |-> MergeFlag(row.closed, excluded.closed),
      archived |-> MergeFlag(row.archived, excluded.archived) ]

UpsertedEvents(table, page) ==
    [ id \in DOMAIN table \cup DOMAIN page |->
        IF id \notin DOMAIN page THEN table[id]
        ELSE IF id \in DOMAIN table THEN MergedEvent(table[id], NewEvent(page[id]))
        ELSE InsertedEvent(NewEvent(page[id])) ]

\* collectEventMarketPairs: the (market, event) pairs one page of events adds;
\* an event whose nested array is absent or empty adds none. The array of the
\* program is kept as the set of its elements.
collectEventMarketPairs(gammaEvents) ==
    UNION { { [marketId |-> gammaEvents[e].markets[i], eventId |-> e] :
                i \in 1..Len(gammaEvents[e].markets) } : e \in DOMAIN gammaEvents }

\* applyEventMarketLinks: UPDATE markets m SET event_id = v.event_id FROM
\* (VALUES ...) v WHERE m.id = v.market_id. `link` gives, for each market row
\* some pair names, the pair the statement used.
LinkedMarkets(table, pairs) == { m \in DOMAIN table : \E p \in pairs : p.marketId = m }

LinkChoices(table, pairs) ==
    { link \in [LinkedMarkets(table, pairs) -> { p.eventId : p \in pairs }] :
        \A m \in DOMAIN link : [marketId |-> m, eventId |-> link[m]] \in pairs }

AppliedLinks(table, link) ==
    [ m \in DOMAIN table |->
        IF m \in DOMAIN link THEN [table[m] EXCEPT !.eventId = link[m]] ELSE table[m] ]

\* ------------------------------------------------------- expiration audit
IsLive(row) == row.active /\ ~row.closed /\ ~row.archived

\* end_date < NOW(), for a nullable date (<<>> is NULL).
IsPast(date, t) == date # <<>> /\ date[1] < t

\* auditExpiredMarkets: the rows the UPDATE matches, and the table after it.
ExpiredMarkets(table, t) ==
    { m \in DOMAIN table :
        table[m].active /\ ~table[m].closed /\ IsPast(table[m].endDateIso, t) }

\* The rows matched without the test of `closed`.
ExpiredEventsClosedToo(table, t) ==
    { e \in DOMAIN table : table[e].active /\ IsPast(table[e].endDate, t) }

\* auditExpiredEvents
ExpiredEvents(table, t) ==
    { e \in DOMAIN table :
        table[e].active /\ ~table[e].closed /\ IsPast(table[e].endDate, t) }

\* The rows matched with a LEFT JOIN in place of the JOIN: events without any
\* linked market count as well.
EventsWithNoActiveMarketsLeftJoin(etable, mtable) ==
    { e \in DOMAIN etable :
        /\ etable[e].active /\ ~etable[e].closed
        /\ \A m \in DOMAIN mtable : mtable[m].eventId = e => ~IsLive(mtable[m]) }

\* auditEventsWithNoActiveMarkets: open events that have linked markets (the
\* JOIN), none of them live.
EventsWithNoActiveMarkets(etable, mtable) ==
    { e \in DOMAIN etable :
        /\ etable[e].active /\ ~etable[e].closed
        /\ \E m \in DOMAIN mtable : mtable[m].eventId = e
        /\ \A m \in DOMAIN mtable : mtable[m].eventId = e => ~IsLive(mtable[m]) }

Deactivated(table, ids) ==
    [ id \in DOMAIN table |->
        IF id \in ids THEN [table[id] EXCEPT !.active = FALSE] ELSE table[id] ]

\* The three statements with the orphan-event audit ahead of the market audit.
AuditedOrphansFirst(mtable, etable, t, done) ==
    LET e1 == IF done >= 1
              THEN Deactivated(etable, EventsWithNoActiveMarkets(etable, mtable))
              ELSE etable
        m1 == IF done >= 2 THEN Deactivated(mtable, ExpiredMarkets(mtable, t)) ELSE mtable
        e2 == IF done >= 3 THEN Deactivated(e1, ExpiredEvents(e1, t)) ELSE e1
    IN  [markets |-> m1, events |-> e2]

\* runExpirationAudit: the tables after the first `done` of its three
\* statements (auditExpiredMarkets, auditEventsWithNoActiveMarkets,
\* auditExpiredEvents), the next one throwing when done < 3.
Audited(mtable, etable, t, done) ==
    LET m1 == IF done >= 1 THEN Deactivated(mtable, ExpiredMarkets(mtable, t)) ELSE mtable
        e1 == IF done >= 2 THEN Deactivated(etable, EventsWithNoActiveMarkets(etable, m1))
              ELSE etable
        e2 == IF done >= 3 THEN Deactivated(e1, ExpiredEvents(e1, t)) ELSE e1
    IN  [markets |-> m1, events |-> e2]

\* ------------------------------------------------------------ CLOB audit
\* Rows per audit query (config clobAuditBatchSize, scaled down with the tables).
clobAuditBatchSize == 1

\* ORDER BY volume_24hr DESC LIMIT n over the rows `cands`: every result the
\* database may return (ties are broken arbitrarily).
TopByVolume(table, cands, n) ==
    { S \in SUBSET cands :
        /\ Cardinality(S) = Min(n, Cardinality(cands))
        /\ \A a \in S, b \in cands \ S : table[a].volume24hr >= table[b].volume24hr }

\* LIMIT n without ORDER BY.
AnyLimited(cands, n) ==
    { S \in SUBSET cands : Cardinality(S) = Min(n, Cardinality(cands)) }

LiveMarkets(table) == { m \in DOMAIN table : IsLive(table[m]) }

\* filter(m => (m.conditionId ?? '').length > 0)
HasCondition(table, S) == { m \in S : table[m].conditionId # "" }

\* Pass 1b: live markets of events that have both a closed and a live market.
MixedEventOpen(table) ==
    { m \in LiveMarkets(table) :
        /\ table[m].eventId # NULL
        /\ \E c \in DOMAIN table : table[c].eventId = table[m].eventId /\ table[c].closed }

\* Pass 2: live markets of the touched events.
OpenOfEvents(table, eIds) == { m \in LiveMarkets(table) : table[m].eventId \in eIds }

\* The CLOB's answer to getMarket: the call threw, or a status whose fields are
\* "true", "false" or "undefined" (absent from the response).
ClobStatus(closed, accepting_orders, enable_order_book) ==
    [ threw |-> FALSE, closed |-> closed, accepting_orders |-> accepting_orders,
      enable_order_book |-> enable_order_book ]

ClobThrew ==
    [ threw |-> TRUE, closed |-> "undefined", accepting_orders |-> "undefined",
      enable_order_book |-> "undefined" ]

\* The answers a probe may get: tradable, closed, not accepting orders, order
\* book disabled, a status without these fields, a failed call.
ClobAnswers ==
    { ClobStatus("false", "true", "true"), ClobStatus("true", "true", "true"),
      ClobStatus("false", "false", "true"), ClobStatus("false", "true", "false"),
      ClobStatus("undefined", "undefined", "undefined"), ClobThrew }

\* isClosed with `closed === true` alone.
isClosedByFlagOnly(status) == status.closed = "true"

\* status.closed === true || status.accepting_orders === false ||
\* status.enable_order_book === false
isClosed(status) ==
    \/ status.closed = "true"
    \/ status.accepting_orders = "false"
    \/ status.enable_order_book = "false"

\* checkMarkets: what a pass adds to closedMarketIds and touchedEventIds, given
\* the CLOB's answer per probed market; a call that threw is caught and adds
\* nothing.
ProbeResults(S) == [S -> ClobAnswers]

ClosedByProbe(res) == { m \in DOMAIN res : ~res[m].threw /\ isClosed(res[m]) }

TouchedByProbe(table, res) ==
    { table[m].eventId : m \in { c \in ClosedByProbe(res) : table[c].eventId # NULL } }

\* checkMarkets' worker pool: every worker takes `i = idx++` until i reaches the
\* length; between two awaits a worker runs alone, so the indexes taken are
\* 0, 1, ... in this order whatever the number of workers.
PoolTakes(length) == [ k \in 1..length |-> k - 1 ]

\* The markets probed by checkMarkets(rows), in the order the probes start.
Probes(rows) == [ k \in 1..Len(rows) |-> rows[PoolTakes(Len(rows))[k] + 1] ]

\* What a pass reports: the probes it made and the answer each market got.
Pass(rows, res) == [ probes |-> Probes(rows), answers |-> res ]

\* UPDATE markets SET closed = true, active = false WHERE id IN (...)
ClosedMarkets(table, ids) ==
    [ m \in DOMAIN table |->
        IF m \in ids THEN [table[m] EXCEPT !.closed = TRUE, !.active = FALSE]
        ELSE table[m] ]

\* The UPDATE without its NOT EXISTS clause: every touched event is closed.
ClosedEventsAll(etable, mtable, eIds) ==
    [ e \in DOMAIN etable |->
        IF e \in eIds THEN [etable[e] EXCEPT !.closed = TRUE, !.active = FALSE]
        ELSE etable[e] ]

\* UPDATE events SET active = false, closed = true WHERE id IN (...) AND NOT
\* EXISTS (a live market of the event)
ClosedEvents(etable, mtable, eIds) ==
    [ e \in DOMAIN etable |->
        IF e \in eIds /\ ~\E m \in DOMAIN mtable : mtable[m].eventId = e /\ IsLive(mtable[m])
        THEN [etable[e] EXCEPT !.closed = TRUE, !.active = FALSE]
        ELSE etable[e] ]

AuditIdle == [pc |-> "idle", checked |-> {}, closedMarketIds |-> {}, touchedEventIds |-> {}]

\* --------------------------------------------------- RealtimeSyncManager
\* loadActiveTokens: the query has no ORDER BY, so the live markets come in any
\* order; `rows` is the order they came in.
RowOrders(S) ==
    { rows \in [1..Cardinality(S) -> S] : \A x \in S : \E i \in 1..Cardinality(S) : rows[i] = x }

RECURSIVE TokensOfRows(_, _)
TokensOfRows(table, rows) ==
    IF rows = <<>> THEN <<>>
    ELSE table[Head(rows)].outcomeTokenIds \o TokensOfRows(table, Tail(rows))

\* Set.prototype.add of each element in turn, the empty token id skipped.
RECURSIVE AddAll(_, _)
AddAll(set, tokenIds) ==
    IF tokenIds = <<>> THEN set
    ELSE AddAll(IF Head(tokenIds) = "" \/ Head(tokenIds) \in Range(set) THEN set
                ELSE Append(set, Head(tokenIds)),
                Tail(tokenIds))

LoadedTokens(table, rows) == AddAll(<<>>, TokensOfRows(table, rows))

\* tokenToMarket.set per token: the last row that carries a token wins.
LoadedMap(table, rows) ==
    [ t \in Range(LoadedTokens(table, rows)) |->
        rows[CHOOSE i \in 1..Len(rows) :
                /\ t \in Range(table[rows[i]].outcomeTokenIds)
                /\ \A j \in (i + 1)..Len(rows) : t \notin Range(table[rows[j]].outcomeTokenIds)] ]

\* Map.prototype.set / delete / keys on the buffer (an entry keeps its place
\* when its key is set again).
BufferKeys(buffer) == { buffer[i].tokenId : i \in 1..Len(buffer) }

\* Map.prototype.set that keeps the entry a key already has.
BufferSetFirstWins(buffer, entry) ==
    IF entry.tokenId \in BufferKeys(buffer) THEN buffer ELSE Append(buffer, entry)

BufferSet(buffer, entry) ==
    IF entry.tokenId \in BufferKeys(buffer)
    THEN [ i \in 1..Len(buffer) |->
             IF buffer[i].tokenId = entry.tokenId THEN entry ELSE buffer[i] ]
    ELSE Append(buffer, entry)

BufferDelete(buffer, keys) == SelectSeq(buffer, LAMBDA e : e.tokenId \notin keys)

\* handleMessage, one element of price_changes: the buffer after it. A change is
\* [asset_id, price]; asset_id is "" when it is not a string (or empty), price is
\* <<>> when it parses to NaN and <<p>> otherwise.
AcceptsChange(map, change) ==
    change.asset_id # "" /\ change.price # <<>> /\ change.asset_id \in DOMAIN map

BufferAfterChange(buffer, map, change, t) ==
    IF AcceptsChange(map, change)
    THEN BufferSet(buffer, [ tokenId |-> change.asset_id,
                             marketId |-> map[change.asset_id],
                             price |-> change.price[1],
                             timestamp |-> t ])
    ELSE buffer

RECURSIVE BufferAfterChanges(_, _, _, _)
BufferAfterChanges(buffer, map, changes, t) ==
    IF changes = <<>> THEN buffer
    ELSE BufferAfterChanges(BufferAfterChange(buffer, map, Head(changes), t),
                            map, Tail(changes), t)

\* flushPrices: marketUpdates, the snapshot grouped by market in the order the
\* markets first appear.
RECURSIVE GroupByMarket(_)
GroupByMarket(updates) ==
    IF updates = <<>> THEN <<>>
    ELSE LET m == Head(updates).marketId
         IN  <<[marketId |-> m,
                priceUpdates |-> SelectSeq(updates, LAMBDA e : e.marketId = m)]>>
             \o GroupByMarket(SelectSeq(updates, LAMBDA e : e.marketId # m))

\* A hole of a JavaScript array (stored as JSON null).
Hole == 0 - 1

\* newPrices[tokenIndex] = price, for tokenIndex = tokenIds.indexOf(tokenId):
\* nothing when the token is not found, and an assignment past the end
\* lengthens the array.
PricesWith(newPrices, tokenIds, update) ==
    LET k == IndexOf(tokenIds, update.tokenId)
        len == IF k > Len(newPrices) THEN k ELSE Len(newPrices)
    IN  IF k = 0 THEN newPrices
        ELSE [ i \in 1..len |->
                 IF i = k THEN update.price
                 ELSE IF i <= Len(newPrices) THEN newPrices[i] ELSE Hole ]

\* The unique index of price_history.
SampleKey(r) == <<r.marketId, r.tokenId, r.timestamp, r.source>>

HasSampleKey(table, r) == \E x \in BagToSet(table) : SampleKey(x) = SampleKey(r)

\* INSERT INTO price_history ... without a conflict clause on a table without
\* the unique index.
PlainInsertSample(table, r) == table (+) SetToBag({r})

\* INSERT INTO price_history VALUES (r) ON CONFLICT (market_id, token_id,
\* timestamp, source) DO NOTHING
InsertSample(table, r) ==
    IF HasSampleKey(table, r) THEN table ELSE table (+) SetToBag({r})

RECURSIVE InsertSamples(_, _)
InsertSamples(table, rows) ==
    IF rows = <<>> THEN table
    ELSE InsertSamples(InsertSample(table, Head(rows)), Tail(rows))

WebsocketSample(update) ==
    [ marketId |-> update.marketId, tokenId |-> update.tokenId,
      timestamp |-> update.timestamp, price |-> update.price, source |-> "websocket" ]

\* The buffer a flush leaves: on success the snapshot's keys are deleted, in the
\* catch block nothing is.
BufferClearedAlways(buffer, snapshot, ok) == BufferDelete(buffer, BufferKeys(snapshot))

BufferAfterFlush(buffer, snapshot, ok) ==
    IF ok THEN BufferDelete(buffer, BufferKeys(snapshot)) ELSE buffer

FlushIdle == [ pc |-> "idle", snapshot |-> <<>>, marketUpdates |-> <<>>, g |-> 0, u |-> 0,
               tokenIds |-> <<>>, newPrices |-> <<>> ]

\* ------------------------------------------------------- BackfillManager
\* Points per INSERT of backfillMarketHistory (100 in the program, scaled down
\* with the histories).
backfillBatchSize == 1

\* The rows of one history point with a row per token: the first at p, every
\* other at 1 - p.
ClobSamplesPerToken(marketId, tokenIds, point) ==
    [ i \in 1..Len(tokenIds) |->
        [ marketId |-> marketId, tokenId |-> tokenIds[i], timestamp |-> point.t,
          price |-> IF i = 1 THEN point.p ELSE One - point.p, source |-> "clob" ] ]

\* The rows of one history point: both tokens of a binary market (the second at
\* 1 - p), else the first token only.
ClobSamples(marketId, tokenIds, point) ==
    LET base(tokenId, price) ==
            [ marketId |-> marketId, tokenId |-> tokenId, timestamp |-> point.t,
              price |-> price, source |-> "clob" ]
    IN  IF Len(tokenIds) = 2
        THEN << base(tokenIds[1], point.p), base(tokenIds[2], One - point.p) >>
        ELSE << base(tokenIds[1], point.p) >>

RECURSIVE ClobBatch(_, _, _)
ClobBatch(marketId, tokenIds, points) ==
    IF points = <<>> THEN <<>>
    ELSE ClobSamples(marketId, tokenIds, Head(points))
         \o ClobBatch(marketId, tokenIds, Tail(points))

BackfillIdle == [ pc |-> "idle", marketId |-> NULL, tokenIds |-> <<>>, history |-> <<>> ]

\* ================================================================ actions
\* Every step records what it did in lastOp.
Tick ==
    /\ now < MaxTime
    /\ now' = now + 1
    /\ lastOp' = Op("tick", "ok", <<>>)
    /\ UNCHANGED <<markets, events, batchVars, priceHistory, flushVars, backfill, received,
                   tradeVars, subscribedTokens, wsVars>>

\* ---- catalog sync (BatchSyncManager)
\* One page of syncMarkets: the client's transformMarket, then upsertMarketsBatch.
UpsertMarketsBatch(rawPage) ==
    /\ markets' = UpsertedMarkets(markets, [id \in DOMAIN rawPage |-> transformMarket(rawPage[id])])
    /\ lastOp' = Op("upsertMarketsBatch",
                    IF DOMAIN rawPage \subseteq DOMAIN markets THEN "merged" ELSE "inserted",
                    rawPage)
    /\ UNCHANGED <<events, batchVars, priceHistory, flushVars, backfill, received, now,
                   tradeVars, subscribedTokens, wsVars>>

\* syncEvents, on entry: the cached pairs are dropped.
SyncEventsStart ==
    /\ eventMarketPairs # {}
    /\ eventMarketPairs' = {}
    /\ lastOp' = Op("syncEvents", "start", <<>>)
    /\ UNCHANGED <<markets, events, audit, runVars, priceHistory, flushVars, backfill,
                   received, now, tradeVars, subscribedTokens, wsVars>>

\* One page of syncEvents: upsertEventsBatch, then collectEventMarketPairs.
UpsertEventsBatch(page) ==
    /\ events' = UpsertedEvents(events, page)
    /\ eventMarketPairs' = eventMarketPairs \cup collectEventMarketPairs(page)
    /\ lastOp' = Op("upsertEventsBatch",
                    IF DOMAIN page \subseteq DOMAIN events THEN "merged" ELSE "inserted", page)
    /\ UNCHANGED <<markets, audit, runVars, priceHistory, flushVars, backfill, received, now,
                   tradeVars, subscribedTokens, wsVars>>

ApplyEventMarketLinks ==
    /\ eventMarketPairs # {}
    /\ \E link \in LinkChoices(markets, eventMarketPairs) :
          markets' = AppliedLinks(markets, link)
    /\ lastOp' = Op("applyEventMarketLinks", "ok", <<>>)
    /\ UNCHANGED <<events, batchVars, priceHistory, flushVars, backfill, received, now,
                   tradeVars, subscribedTokens, wsVars>>

\* ---- expiration audit
AuditExpiredMarkets ==
    /\ markets' = Deactivated(markets, ExpiredMarkets(markets, now))
    /\ lastOp' = Op("auditExpiredMarkets", "ok", ExpiredMarkets(markets, now))
    /\ UNCHANGED <<events, batchVars, priceHistory, flushVars, backfill, received, now,
                   tradeVars, subscribedTokens, wsVars>>

AuditEventsWithNoActiveMarkets ==
    /\ events' = Deactivated(events, EventsWithNoActiveMarkets(events, markets))
    /\ lastOp' = Op("auditEventsWithNoActiveMarkets", "ok",
                    EventsWithNoActiveMarkets(events, markets))
    /\ UNCHANGED <<markets, batchVars, priceHistory, flushVars, backfill, received, now,
                   tradeVars, subscribedTokens, wsVars>>

AuditExpiredEvents ==
    /\ events' = Deactivated(events, ExpiredEvents(events, now))
    /\ lastOp' = Op("auditExpiredEvents", "ok", ExpiredEvents(events, now))
    /\ UNCHANGED <<markets, batchVars, priceHistory, flushVars, backfill, received, now,
                   tradeVars, subscribedTokens, wsVars>>

\* ---- CLOB audit (auditClobTradability), one step per database statement; the
\* probes of a pass are answered together with its query.
AuditCall ==
    /\ audit.pc = "idle"
    /\ \E cands \in TopByVolume(markets, LiveMarkets(markets), clobAuditBatchSize) :
          LET toCheck == HasCondition(markets, cands)
          IN  IF toCheck = {}
              THEN /\ audit' = AuditIdle
                   /\ lastOp' = Op("auditClobTradability", "nothing to check", <<>>)
              ELSE \E rows \in RowOrders(toCheck) :
                   \E res \in ProbeResults(Range(Probes(rows))) :
                   /\ audit' = [ pc |-> "pass1b", checked |-> toCheck,
                                 closedMarketIds |-> ClosedByProbe(res),
                                 touchedEventIds |-> TouchedByProbe(markets, res) ]
                   /\ lastOp' = Op("auditClobTradability", "pass1", Pass(rows, res))

\* What the first pass leaves alone.
auditCore == <<markets, events, eventMarketPairs, runCore, priceHistory, flushVars, backfill,
               received, now, tradeVars, subscribedTokens, wsVars>>

AuditPass1 ==
    /\ AuditCall
    /\ UNCHANGED <<auditCore, hostVars>>

AuditPass1b ==
    /\ audit.pc = "pass1b"
    /\ \E rows \in TopByVolume(markets, MixedEventOpen(markets), clobAuditBatchSize) :
          LET mixedToCheck == HasCondition(markets, rows) \ audit.checked
          IN  \E order \in RowOrders(mixedToCheck) :
              \E res \in ProbeResults(Range(Probes(order))) :
              /\ audit' = [ pc |-> "pass2",
                            checked |-> audit.checked \cup mixedToCheck,
                            closedMarketIds |-> audit.closedMarketIds \cup ClosedByProbe(res),
                            touchedEventIds |-> audit.touchedEventIds
                                                \cup TouchedByProbe(markets, res) ]
              /\ lastOp' = Op("auditClobTradability", "pass1b", Pass(order, res))
    /\ UNCHANGED <<markets, events, eventMarketPairs, runVars, priceHistory, flushVars, backfill,
                   received, now,
                   tradeVars, subscribedTokens, wsVars>>

AuditPass2 ==
    /\ audit.pc = "pass2"
    /\ \E more \in AnyLimited(OpenOfEvents(markets, audit.touchedEventIds), clobAuditBatchSize) :
          LET extraToCheck == HasCondition(markets, more) \ audit.checked
          IN  \E order \in RowOrders(extraToCheck) :
              \E res \in ProbeResults(Range(Probes(order))) :
              /\ audit' = [ pc |-> "closeMarkets",
                            checked |-> audit.checked \cup extraToCheck,
                            closedMarketIds |-> audit.closedMarketIds \cup ClosedByProbe(res),
                            touchedEventIds |-> audit.touchedEventIds
                                                \cup TouchedByProbe(markets, res) ]
              /\ lastOp' = Op("auditClobTradability", "pass2", Pass(order, res))
    /\ UNCHANGED <<markets, events, eventMarketPairs, runVars, priceHistory, flushVars, backfill,
                   received, now,
                   tradeVars, subscribedTokens, wsVars>>

\* UPDATE markets ... RETURNING id, event_id: the returned event ids are touched too.
AuditCloseMarkets ==
    /\ audit.pc = "closeMarkets"
    /\ LET ids == audit.closedMarketIds \cap DOMAIN markets
           touched == audit.touchedEventIds
                      \cup ({ markets[m].eventId : m \in ids } \ {NULL})
       IN  /\ markets' = ClosedMarkets(markets, ids)
           /\ audit' = IF audit.closedMarketIds # {} /\ touched # {}
                       THEN [audit EXCEPT !.pc = "closeEvents", !.touchedEventIds = touched]
                       ELSE AuditIdle
           /\ lastOp' = Op("auditClobTradability", "closeMarkets", ids)
    /\ UNCHANGED <<events, eventMarketPairs, runVars, priceHistory, flushVars, backfill,
                   received, now, tradeVars, subscribedTokens, wsVars>>

AuditCloseEvents ==
    /\ audit.pc = "closeEvents"
    /\ events' = ClosedEvents(events, markets, audit.touchedEventIds)
    /\ audit' = AuditIdle
    /\ lastOp' = Op("auditClobTradability", "closeEvents", audit.touchedEventIds)
    /\ UNCHANGED <<markets, eventMarketPairs, runVars, priceHistory, flushVars, backfill,
                   received, now, tradeVars, subscribedTokens, wsVars>>

\* A statement or request of the audit throws: the catch block ends the run.
AuditFail ==
    /\ audit.pc # "idle"
    /\ audit' = AuditIdle
    /\ lastOp' = Op("auditClobTradability", "error", <<>>)
    /\ UNCHANGED <<markets, events, eventMarketPairs, runVars, priceHistory, flushVars, backfill,
                   received, now,
                   tradeVars, subscribedTokens, wsVars>>

\* ---- realtime sync (RealtimeSyncManager)
LoadActiveTokens ==
    /\ \E rows \in RowOrders(LiveMarkets(markets)) :
          /\ tokenToMarket' = LoadedMap(markets, rows)
          /\ subscribedTokens' = LoadedTokens(markets, rows)
    /\ lastOp' = Op("loadActiveTokens", "ok", <<>>)
    /\ UNCHANGED <<markets, events, batchVars, priceHistory, priceBuffer, isFlushingPrices,
                   flush, flushLog, backfill, received, now, tradeVars, wsVars>>

\* handleMessage on a frame carrying price_changes = changes.
HandleMessage(changes) ==
    /\ received < MaxMessages
    /\ received' = received + 1
    /\ priceBuffer' = BufferAfterChanges(priceBuffer, tokenToMarket, changes, now)
    /\ flushLog' = IF priceBuffer' = priceBuffer THEN flushLog
                   ELSE [flushLog EXCEPT !.newer = flushLog.failed,
                                         !.midFlight = (flush.pc # "idle")]
    /\ lastOp' = Op("handleMessage",
                    IF priceBuffer' = priceBuffer THEN "ignored" ELSE "buffered", changes)
    /\ UNCHANGED <<markets, events, batchVars, priceHistory, tokenToMarket, isFlushingPrices,
                   flush, backfill, now,
                   tradeVars, subscribedTokens, wsVars>>

\* The two guards at the head of flushPrices without the test of the flag.
FlushGuardNoFlag(flushing, buffer) == IF buffer = <<>> THEN "empty" ELSE "run"

\* The two guards at the head of flushPrices: a flush in progress, an empty
\* buffer.
FlushGuard(flushing, buffer) ==
    IF flushing THEN "skip" ELSE IF buffer = <<>> THEN "empty" ELSE "run"

\* flushPrices up to its first await: the guards, the flag, the snapshot and the
\* grouping.
FlushCall ==
    /\ FlushGuard(isFlushingPrices, priceBuffer) = "run"
    /\ isFlushingPrices' = TRUE
    /\ flush' = [ pc |-> "read", snapshot |-> priceBuffer,
                  marketUpdates |-> GroupByMarket(priceBuffer), g |-> 1, u |-> 0,
                  tokenIds |-> <<>>, newPrices |-> <<>> ]
    /\ flushLog' = [flushLog EXCEPT !.midFlight = FALSE]
    /\ lastOp' = Op("flushPrices", "begin", <<>>)

FlushBegin ==
    /\ FlushCall
    /\ UNCHANGED <<markets, events, batchVars, priceHistory, tokenToMarket, priceBuffer,
                   backfill, received, now,
                   tradeVars, subscribedTokens, wsVars>>

\* The end of one iteration of the loop over marketUpdates: the next market, or
\* the end of the try block and the finally block.
FlushAdvance ==
    IF flush.g < Len(flush.marketUpdates)
    THEN /\ flush' = [flush EXCEPT !.pc = "read", !.g = flush.g + 1, !.u = 0,
                                   !.tokenIds = <<>>, !.newPrices = <<>>]
         /\ lastOp' = Op("flushPrices", "next market", <<>>)
         /\ UNCHANGED <<priceBuffer, isFlushingPrices, flushLog>>
    ELSE /\ flush' = FlushIdle
         /\ priceBuffer' = BufferAfterFlush(priceBuffer, flush.snapshot, TRUE)
         /\ isFlushingPrices' = FALSE
         /\ flushLog' = [flushLog EXCEPT !.succeeded = TRUE]
         /\ lastOp' = Op("flushPrices", "ok", <<>>)

\* findFirst of the market, and the first pass through `newPrices[tokenIndex] =
\* update.price` up to the await of the insert.
FlushRead ==
    /\ flush.pc = "read"
    /\ LET group == flush.marketUpdates[flush.g]
       IN  IF group.marketId \notin DOMAIN markets
           THEN FlushAdvance
           ELSE /\ flush' = [flush EXCEPT
                      !.pc = "insert", !.u = 1,
                      !.tokenIds = markets[group.marketId].outcomeTokenIds,
                      !.newPrices = PricesWith(markets[group.marketId].outcomePrices,
                                               markets[group.marketId].outcomeTokenIds,
                                               group.priceUpdates[1])]
                /\ lastOp' = Op("flushPrices", "read", <<>>)
                /\ UNCHANGED <<priceBuffer, isFlushingPrices, flushLog>>
    /\ UNCHANGED <<markets, events, batchVars, priceHistory, tokenToMarket, backfill,
                   received, now,
                   tradeVars, subscribedTokens, wsVars>>

\* The insert of one update's sample, then on to the next update or to the
\* UPDATE of the market.
FlushInsert ==
    /\ flush.pc = "insert"
    /\ LET priceUpdates == flush.marketUpdates[flush.g].priceUpdates
           sample == WebsocketSample(priceUpdates[flush.u])
       IN  /\ priceHistory' = InsertSample(priceHistory, sample)
           /\ lastOp' = Op("insert price_history",
                           IF HasSampleKey(priceHistory, sample) THEN "conflict"
                           ELSE "inserted", sample)
           /\ flush' = IF flush.u < Len(priceUpdates)
                       THEN [flush EXCEPT
                               !.u = flush.u + 1,
                               !.newPrices = PricesWith(flush.newPrices, flush.tokenIds,
                                                        priceUpdates[flush.u + 1])]
                       ELSE [flush EXCEPT !.pc = "update"]
    /\ UNCHANGED <<markets, events, batchVars, tokenToMarket, priceBuffer, isFlushingPrices,
                   flushLog, backfill, received, now,
                   tradeVars, subscribedTokens, wsVars>>

\* The SET list of the flush's UPDATE: outcomePrices and priceUpdatedAt. The
\* modelled row carries outcomePrices; price_updated_at and last_trade_price
\* are columns no modelled statement reads.
PricedAndReactivatedMarket(row, newPrices) ==
    [row EXCEPT !.outcomePrices = newPrices, !.active = TRUE]

PricedMarket(row, newPrices) == [row EXCEPT !.outcomePrices = newPrices]

\* UPDATE markets SET outcome_prices = newPrices WHERE id = marketId
FlushUpdate ==
    /\ flush.pc = "update"
    /\ LET marketId == flush.marketUpdates[flush.g].marketId
       IN  markets' = [ m \in DOMAIN markets |->
                          IF m = marketId
                          THEN PricedMarket(markets[m], flush.newPrices)
                          ELSE markets[m] ]
    /\ FlushAdvance
    /\ UNCHANGED <<events, batchVars, priceHistory, tokenToMarket, backfill, received, now,
                   tradeVars, subscribedTokens, wsVars>>

\* The statement the flush is waiting for throws: the catch block, then finally.
FlushFail ==
    /\ flush.pc \in {"read", "insert", "update"}
    /\ priceBuffer' = BufferAfterFlush(priceBuffer, flush.snapshot, FALSE)
    /\ isFlushingPrices' = FALSE
    /\ flushLog' = [flushLog EXCEPT !.failed = TRUE, !.newer = FALSE]
    /\ flush' = FlushIdle
    /\ lastOp' = Op("flushPrices", "error", flush.pc)
    /\ UNCHANGED <<markets, events, batchVars, priceHistory, tokenToMarket, backfill,
                   received, now,
                   tradeVars, subscribedTokens, wsVars>>

FlushLogInit == [succeeded |-> FALSE, failed |-> FALSE, newer |-> FALSE, midFlight |-> FALSE]

\* ---- backfill (BackfillManager.backfillMarketHistory)
\* findFirst of the market; the call returns 0 when there is no row or no token.
BackfillRead(marketId) ==
    /\ backfill.pc = "idle"
    /\ IF marketId \in DOMAIN markets /\ markets[marketId].outcomeTokenIds # <<>>
       THEN /\ backfill' = [ pc |-> "fetch", marketId |-> marketId,
                             tokenIds |-> markets[marketId].outcomeTokenIds,
                             history |-> <<>> ]
            /\ lastOp' = Op("backfillMarketHistory", "read", marketId)
       ELSE /\ backfill' = BackfillIdle
            /\ lastOp' = Op("backfillMarketHistory", "nothing to do", marketId)
    /\ UNCHANGED <<markets, events, batchVars, priceHistory, flushVars, received, now,
                   tradeVars, subscribedTokens, wsVars>>

\* getPriceHistory answers with `history`.
BackfillFetch(history) ==
    /\ backfill.pc = "fetch"
    /\ backfill' = IF history = <<>> THEN BackfillIdle
                   ELSE [backfill EXCEPT !.pc = "insert", !.history = history]
    /\ lastOp' = Op("backfillMarketHistory", "fetched", <<>>)
    /\ UNCHANGED <<markets, events, batchVars, priceHistory, flushVars, received, now,
                   tradeVars, subscribedTokens, wsVars>>

\* One multi-row INSERT ... ON CONFLICT DO NOTHING of the batch loop.
BackfillInsertBatch ==
    /\ backfill.pc = "insert"
    /\ LET n == Min(backfillBatchSize, Len(backfill.history))
           values == ClobBatch(backfill.marketId, backfill.tokenIds,
                               SubSeq(backfill.history, 1, n))
           rest == SubSeq(backfill.history, n + 1, Len(backfill.history))
       IN  /\ priceHistory' = InsertSamples(priceHistory, values)
           /\ backfill' = IF rest = <<>> THEN BackfillIdle
                          ELSE [backfill EXCEPT !.history = rest]
           /\ lastOp' = Op("insert price_history",
                           IF \E i \in 1..Len(values) : HasSampleKey(priceHistory, values[i])
                           THEN "conflict" ELSE "inserted", values[1])
    /\ UNCHANGED <<markets, events, batchVars, flushVars, received, now,
                   tradeVars, subscribedTokens, wsVars>>

\* The request or an insert throws: the catch block ends the call.
BackfillFail ==
    /\ backfill.pc \in {"fetch", "insert"}
    /\ backfill' = BackfillIdle
    /\ lastOp' = Op("backfillMarketHistory", "error", <<>>)
    /\ UNCHANGED <<markets, events, batchVars, priceHistory, flushVars, received, now,
                   tradeVars, subscribedTokens, wsVars>>

\* ---- trades sync (BatchSyncManager.syncAllTrades)
\* Markets tracked per run (config tradesSyncMarketLimit, scaled down with the
\* tables).
tradesSyncMarketLimit == 1

\* `v ?? ''` of an optional string (<<>> is undefined).
OrEmpty(v) == IF v = <<>> THEN "" ELSE v[1]

\* The hex digest of SHA-256, kept as the text it digests: equal texts give equal
\* digests, and different texts are taken to give different ones.
Sha256Hex(text) == "sha256:" \o text

\* The id of a trade that leaves the size out of the digest.
TradeIdWithoutSize(trade) ==
    Sha256Hex(trade.asset \o "|" \o trade.side \o "|" \o ToString(trade.price) \o "|"
              \o ToString(trade.timestamp) \o "|"
              \o OrEmpty(trade.transactionHash) \o "|" \o OrEmpty(trade.proxyWallet))

\* tradeId: sha256 of [asset, side, price, size, timestamp, transactionHash ?? '',
\* proxyWallet ?? ''].join('|')
TradeId(trade) ==
    Sha256Hex(trade.asset \o "|" \o trade.side \o "|" \o ToString(trade.price) \o "|"
              \o ToString(trade.size) \o "|" \o ToString(trade.timestamp) \o "|"
              \o OrEmpty(trade.transactionHash) \o "|" \o OrEmpty(trade.proxyWallet))

\* The row pushed to rowsToInsert for one trade of the feed.
TradeRow(trade, marketId) ==
    [ id |-> TradeId(trade), marketId |-> marketId, tokenId |-> trade.asset,
      side |-> trade.side, price |-> trade.price, size |-> trade.size,
      timestamp |-> trade.timestamp,
      transactionHash |-> IF trade.transactionHash = <<>> THEN NULL
                          ELSE trade.transactionHash[1] ]

\* rowsToInsert: the feed filtered to the tracked tokens, in feed order.
RECURSIVE RowsToInsert(_, _)
RowsToInsert(feed, map) ==
    IF feed = <<>> THEN <<>>
    ELSE (IF Head(feed).asset \in DOMAIN map
          THEN << TradeRow(Head(feed), map[Head(feed).asset]) >> ELSE <<>>)
         \o RowsToInsert(Tail(feed), map)

HasTradeId(table, id) == \E x \in BagToSet(table) : x.id = id

\* INSERT INTO trades VALUES (...) ON CONFLICT DO NOTHING, row by row.
RECURSIVE InsertTrades(_, _)
InsertTrades(table, rows) ==
    IF rows = <<>> THEN table
    ELSE InsertTrades(IF HasTradeId(table, Head(rows).id) THEN table
                      ELSE table (+) SetToBag({Head(rows)}),
                      Tail(rows))

\* ---- sync_state and the per-entity sync runs (BatchSyncManager)
SyncEntities == {"events", "markets", "trades"}

\* No row of sync_state yet.
SyncStateEmpty == [ e \in SyncEntities |-> [status |-> "none", errorMessage |-> NULL] ]

\* updateSyncState: the upsert of the entity's row (errorMessage ?? null).
updateSyncState(table, entity, status, errorMessage) ==
    [ table EXCEPT ![entity] = [status |-> status, errorMessage |-> errorMessage] ]

\* The locals of a syncEvents / syncMarkets call, with what the run fetched:
\* `pages` lists, for each answer of the catalog in this run, the filter and the
\* offset asked for and the ids answered; `runs` counts the runs begun.
SyncRunIdle ==
    [ pc |-> "idle", includeClosed |-> FALSE, closed |-> FALSE, offset |-> 0,
      pages |-> <<>>, runs |-> 0 ]

\* The locals of a runInitialSync call: where it is (idle, or awaiting syncEvents
\* or syncMarkets) and its isFreshDb.
InitialSyncIdle == [ pc |-> "idle", isFreshDb |-> FALSE ]

\* The locals of a runCleanup call: the phase, its cutoff, and for the sweep so
\* far the rows deleted and whether a phase ended in its catch block; `sweeps`
\* counts the calls.
CleanupIdle == [ pc |-> "idle", cutoff |-> 0, deleted |-> 0, failed |-> FALSE, sweeps |-> 0 ]

\* Rows per DELETE of runCleanup (LIMIT 5000, scaled down with the tables).
cleanupChunkSize == 2

\* config.priceHistoryRetentionDays and config.tradesRetentionDays, in instants.
priceHistoryRetentionDays == 1
tradesRetentionDays == 1

\* runCleanup calls in a behaviour.
MaxSweeps == 2

\* SELECT id FROM ... WHERE timestamp < cutoff
OlderThan(table, cutoff) == { r \in BagToSet(table) : r.timestamp < cutoff }

\* ... LIMIT n, with no ORDER BY: any n of the rows, or all of them when fewer.
ChunksOf(rows, n) == { S \in SUBSET rows : Cardinality(S) = Min(n, Cardinality(rows)) }

TradesSyncIdle == [ pc |-> "idle", tokenToMarket |-> <<>>, feed |-> <<>> ]

\* One flag for the three syncs.
BusyAny(flags, trading, e) == trading \/ flags["events"] \/ flags["markets"]

\* The flag a call of entity e tests and takes: isSyncingEvents,
\* isSyncingMarkets or isSyncingTrades.
Busy(flags, trading, e) == IF e = "trades" THEN trading ELSE flags[e]

\* Items per catalog request (config marketsBatchSize, scaled down with the
\* catalog).
marketsBatchSize == 2

\* Sync runs of one entity started in a behaviour.
MaxRuns == 2

\* GET /events, GET /markets with {limit, offset, closed}: the items of the
\* catalog with that closed flag, from the offset on, at most limit of them.
CatalogPage(items, closed, offset, limit) ==
    LET matching == SelectSeq(items, LAMBDA x : (x.closed = "true") = closed)
    IN  SubSeq(matching, offset + 1, Min(offset + limit, Len(matching)))

\* The answer as the upsert takes it: id -> item.
AsPage(batch) == [ id \in { batch[i].id : i \in 1..Len(batch) } |->
                     (CHOOSE i \in 1..Len(batch) : batch[i].id = id) ]

ItemsOf(batch) == [ id \in DOMAIN AsPage(batch) |-> batch[AsPage(batch)[id]] ]

\* fetchByFilter: a pass that ends on any page, short or not, only when it is
\* empty.
PassEndsOnEmptyOnly(batch, limit) == batch = <<>>

\* fetchByFilter: `if (batch.length === 0) break` and, after the upsert,
\* `if (batch.length < FETCH_BATCH_SIZE) break`.
PassEnds(batch, limit) == Len(batch) = 0 \/ Len(batch) < limit

\* The callbacks invoked so far, a failed run notifying as well.
NotifiedAlways(n, e, ok) == IF e = "markets" THEN n + 1 ELSE n

\* onMarketsSynced is invoked at the end of the try block of syncMarkets.
Notified(n, e, ok) == IF e = "markets" /\ ok THEN n + 1 ELSE n

SyncName(e) == IF e = "events" THEN "syncEvents" ELSE "syncMarkets"

\* What one pass of fetchByFilter is answered with, page after page.
RECURSIVE PassItems(_, _, _)
PassItems(items, closed, offset) ==
    LET batch == CatalogPage(items, closed, offset, marketsBatchSize)
    IN  IF PassEnds(batch, marketsBatchSize) THEN batch
        ELSE batch \o PassItems(items, closed, offset + Len(batch))

\* The items a whole run upserts: the open ones, then the closed ones if asked.
RunItems(items, includeClosed) ==
    PassItems(items, FALSE, 0) \o (IF includeClosed THEN PassItems(items, TRUE, 0) ELSE <<>>)

\* The guards and the flag, up to the first await.
TradesBegin ==
    /\ config.enableTradesSync
    /\ ~Busy(isSyncing, isSyncingTrades, "trades")
    /\ isSyncingTrades' = TRUE
    /\ tradesSync' = [TradesSyncIdle EXCEPT !.pc = "markets"]
    /\ lastOp' = Op("syncAllTrades", "begin", <<>>)
    /\ UNCHANGED <<markets, events, batchVars, priceHistory, flushVars, backfill, received,
                   now, trades, syncState, subscribedTokens, wsVars>>

\* updateSyncState('trades', 'syncing'), then the query of the live markets (the
\* most active ones first, limited) and the token map built from it.
TradesReadMarkets ==
    /\ tradesSync.pc = "markets"
    /\ syncState' = updateSyncState(syncState, "trades", "syncing", NULL)
    /\ \E tracked \in TopByVolume(markets, LiveMarkets(markets), tradesSyncMarketLimit) :
       \E rows \in RowOrders(tracked) :
          tradesSync' = [tradesSync EXCEPT !.pc = "feed",
                                           !.tokenToMarket = LoadedMap(markets, rows)]
    /\ lastOp' = Op("syncAllTrades", "markets", <<>>)
    /\ UNCHANGED <<markets, events, batchVars, priceHistory, flushVars, backfill, received,
                   now, trades, isSyncingTrades, subscribedTokens, wsVars>>

\* getPublicTrades answers with `feed`; the rows are built up to the insert, or,
\* with no row to insert, up to the end: updateSyncState('trades', 'idle').
TradesFetch(feed) ==
    /\ tradesSync.pc = "feed"
    /\ IF RowsToInsert(feed, tradesSync.tokenToMarket) = <<>>
       THEN /\ tradesSync' = TradesSyncIdle
            /\ isSyncingTrades' = FALSE
            /\ syncState' = updateSyncState(syncState, "trades", "idle", NULL)
            /\ lastOp' = Op("syncAllTrades", "ok",
                            [feed |-> feed, rows |-> <<>>, inserted |-> 0])
       ELSE /\ tradesSync' = [tradesSync EXCEPT !.pc = "insert", !.feed = feed]
            /\ lastOp' = Op("syncAllTrades", "fetched", <<>>)
            /\ UNCHANGED <<isSyncingTrades, syncState>>
    /\ UNCHANGED <<markets, events, batchVars, priceHistory, flushVars, backfill, received,
                   now, trades, subscribedTokens, wsVars>>

TradesInsert ==
    /\ tradesSync.pc = "insert"
    /\ trades' = InsertTrades(trades, RowsToInsert(tradesSync.feed, tradesSync.tokenToMarket))
    /\ tradesSync' = TradesSyncIdle
    /\ isSyncingTrades' = FALSE
    /\ syncState' = updateSyncState(syncState, "trades", "idle", NULL)
    /\ lastOp' = Op("syncAllTrades", "ok",
                    [ feed |-> tradesSync.feed,
                      rows |-> RowsToInsert(tradesSync.feed, tradesSync.tokenToMarket),
                      inserted |-> BagCardinality(trades') - BagCardinality(trades) ])
    /\ UNCHANGED <<markets, events, batchVars, priceHistory, flushVars, backfill, received,
                   now, subscribedTokens, wsVars>>

\* A query, the request or the insert throws: the catch block, whose
\* updateSyncState('trades', 'error', ...) is written or throws in its turn, and
\* finally.
TradesFail ==
    /\ tradesSync.pc # "idle"
    /\ tradesSync' = TradesSyncIdle
    /\ isSyncingTrades' = FALSE
    /\ \E written \in BOOLEAN :
          /\ syncState' = IF written
                          THEN updateSyncState(syncState, "trades", "error", "message")
                          ELSE syncState
          /\ lastOp' = Op("syncAllTrades", "error", written)
    /\ UNCHANGED <<markets, events, batchVars, priceHistory, flushVars, backfill, received,
                   now, trades, subscribedTokens, wsVars>>

\* syncAllTrades called while a trades run is in flight: the warning, nothing else.
TradesDropped ==
    /\ config.enableTradesSync
    /\ Busy(isSyncing, isSyncingTrades, "trades")
    /\ lastOp' = Op("syncAllTrades", "dropped", <<>>)
    /\ UNCHANGED <<markets, events, batchVars, priceHistory, flushVars, backfill, received,
                   now, tradeVars, subscribedTokens, wsVars>>

\* ---- syncEvents and syncMarkets, one step per await; e is the entity
\* What these runs leave alone.
syncCore == <<audit, catalog, cleanup, config, search, priceHistory, flushVars, backfill, received,
              now, trades, isSyncingTrades, tradesSync, subscribedTokens, wsVars>>
syncFrame == <<syncCore, hostVars>>

\* The call up to its first await: dropped under the flag, or the flag taken and
\* (syncEvents) the cached pairs dropped.
SyncEnter(e, includeClosed) ==
    /\ IF Busy(isSyncing, isSyncingTrades, e)
       THEN /\ lastOp' = Op(SyncName(e), "dropped", <<>>)
            /\ UNCHANGED <<isSyncing, syncRun, eventMarketPairs>>
       ELSE /\ syncRun[e].runs < MaxRuns
            /\ isSyncing' = [isSyncing EXCEPT ![e] = TRUE]
            /\ syncRun' = [syncRun EXCEPT ![e] =
                              [SyncRunIdle EXCEPT !.pc = "syncing",
                                                  !.includeClosed = includeClosed,
                                                  !.runs = syncRun[e].runs + 1]]
            /\ eventMarketPairs' = IF e = "events" THEN {} ELSE eventMarketPairs
            /\ lastOp' = Op(SyncName(e), "begin", includeClosed)
    /\ UNCHANGED <<markets, events, syncState, marketsSynced, syncCore>>

\* syncEvents / syncMarkets called by a timer or by hand.
SyncCall(e, includeClosed) ==
    /\ SyncEnter(e, includeClosed)
    /\ UNCHANGED hostVars

\* updateSyncState(e, 'syncing')
SyncWriteSyncing(e) ==
    /\ syncRun[e].pc = "syncing"
    /\ syncState' = updateSyncState(syncState, e, "syncing", NULL)
    /\ syncRun' = [syncRun EXCEPT ![e].pc = "fetch"]
    /\ lastOp' = Op(SyncName(e), "syncing", <<>>)
    /\ UNCHANGED <<markets, events, eventMarketPairs, isSyncing, marketsSynced, syncFrame>>

\* One turn of the loop of fetchByFilter: the request, the upsert of a page that
\* is not empty (with collectEventMarketPairs for events), the offset moved on;
\* and, when the pass ends, the pass over the closed items or the next step.
SyncFetchPage(e) ==
    LET run == syncRun[e]
        batch == CatalogPage(catalog[e], run.closed, run.offset, marketsBatchSize)
        ends == PassEnds(batch, marketsBatchSize)
        again == ends /\ ~run.closed /\ run.includeClosed
        after == IF ~ends \/ again THEN "fetch" ELSE IF e = "events" THEN "link" ELSE "audit"
    IN  /\ run.pc = "fetch"
        /\ markets' = IF e = "markets" /\ batch # <<>>
                      THEN UpsertedMarkets(markets,
                               [id \in DOMAIN ItemsOf(batch) |->
                                   transformMarket(ItemsOf(batch)[id])])
                      ELSE markets
        /\ events' = IF e = "events" /\ batch # <<>>
                     THEN UpsertedEvents(events, ItemsOf(batch)) ELSE events
        /\ eventMarketPairs' = IF e = "events" /\ batch # <<>>
                               THEN eventMarketPairs \cup collectEventMarketPairs(ItemsOf(batch))
                               ELSE eventMarketPairs
        /\ syncRun' = [syncRun EXCEPT ![e] =
                          [run EXCEPT !.pc = after,
                                      !.closed = run.closed \/ again,
                                      !.offset = IF ends THEN 0 ELSE run.offset + Len(batch),
                                      !.pages = Append(run.pages,
                                                       [closed |-> run.closed,
                                                        offset |-> run.offset,
                                                        ids |-> [i \in 1..Len(batch) |->
                                                                    batch[i].id]])]]
        /\ lastOp' = Op(SyncName(e), "page", Len(batch))
        /\ UNCHANGED <<syncState, isSyncing, marketsSynced, syncFrame>>

\* syncEvents: applyEventMarketLinks, which returns at once without pairs.
SyncLink ==
    /\ syncRun["events"].pc = "link"
    /\ IF eventMarketPairs = {} THEN UNCHANGED markets
       ELSE \E link \in LinkChoices(markets, eventMarketPairs) :
               markets' = AppliedLinks(markets, link)
    /\ syncRun' = [syncRun EXCEPT !["events"].pc = "audit"]
    /\ lastOp' = Op("syncEvents", "linked", eventMarketPairs)
    /\ UNCHANGED <<events, eventMarketPairs, syncState, isSyncing, marketsSynced, syncFrame>>

\* auditExpiredEvents / auditExpiredMarkets at the end of the run.
SyncAudit(e) ==
    /\ syncRun[e].pc = "audit"
    /\ events' = IF e = "events" THEN Deactivated(events, ExpiredEvents(events, now))
                 ELSE events
    /\ markets' = IF e = "markets" THEN Deactivated(markets, ExpiredMarkets(markets, now))
                  ELSE markets
    /\ syncRun' = [syncRun EXCEPT ![e].pc = "idleWrite"]
    /\ lastOp' = Op(SyncName(e), "audited", <<>>)
    /\ UNCHANGED <<eventMarketPairs, syncState, isSyncing, marketsSynced, syncFrame>>

\* updateSyncState(e, 'idle', ...)
SyncWriteIdle(e) ==
    /\ syncRun[e].pc = "idleWrite"
    /\ syncState' = updateSyncState(syncState, e, "idle", NULL)
    /\ syncRun' = [syncRun EXCEPT ![e].pc = "invalidate"]
    /\ lastOp' = Op(SyncName(e), "idle", <<>>)
    /\ UNCHANGED <<markets, events, eventMarketPairs, isSyncing, marketsSynced, syncFrame>>

\* The two invalidateCache calls, which catch their own errors.
SyncInvalidate(e) ==
    /\ syncRun[e].pc = "invalidate"
    /\ syncRun' = [syncRun EXCEPT ![e].pc = "invalidated"]
    /\ lastOp' = Op(SyncName(e), "invalidated", <<>>)
    /\ UNCHANGED <<markets, events, eventMarketPairs, syncState, isSyncing, marketsSynced,
                   syncFrame>>

\* The end of the try block (syncMarkets: onMarketsSynced is invoked) and finally.
SyncFinish(e) ==
    /\ syncRun[e].pc = "invalidated"
    /\ marketsSynced' = Notified(marketsSynced, e, TRUE)
    /\ isSyncing' = [isSyncing EXCEPT ![e] = FALSE]
    /\ syncRun' = [syncRun EXCEPT ![e] = [SyncRunIdle EXCEPT !.runs = syncRun[e].runs]]
    /\ lastOp' = Op(SyncName(e), "ok", <<>>)
    /\ UNCHANGED <<markets, events, eventMarketPairs, syncState, syncFrame>>

\* An awaited step throws: the catch block, whose updateSyncState(e, 'error', ...)
\* is written or throws in its turn, and finally.
SyncFail(e) ==
    /\ syncRun[e].pc \in {"syncing", "fetch", "link", "audit", "idleWrite"}
    /\ \E written \in BOOLEAN :
          /\ syncState' = IF written THEN updateSyncState(syncState, e, "error", "message")
                          ELSE syncState
          /\ lastOp' = Op(SyncName(e), "error", written)
    /\ marketsSynced' = Notified(marketsSynced, e, FALSE)
    /\ isSyncing' = [isSyncing EXCEPT ![e] = FALSE]
    /\ syncRun' = [syncRun EXCEPT ![e] = [SyncRunIdle EXCEPT !.runs = syncRun[e].runs]]
    /\ UNCHANGED <<markets, events, eventMarketPairs, syncFrame>>

\* SELECT count(*) FROM markets WHERE closed = true, and count === 0.
isFreshDb(table) == { m \in DOMAIN table : table[m].closed } = {}

\* runInitialSync with every step succeeding: the count of closed markets,
\* syncEvents (upserts, pairs, links, auditExpiredEvents), syncMarkets (upserts,
\* auditExpiredMarkets, the callback), applyEventMarketLinks. The pages of a
\* run carry different ids, so their upserts amount to one over all items.
InitialSyncRuns ==
    LET fresh == isFreshDb(markets)
        eItems == RunItems(catalog.events, fresh)
        mItems == RunItems(catalog.markets, fresh)
        pairs == collectEventMarketPairs(ItemsOf(eItems))
        e1 == UpsertedEvents(events, ItemsOf(eItems))
        e2 == Deactivated(e1, ExpiredEvents(e1, now))
    IN  /\ marketsSynced < MaxRuns
        /\ ~isSyncing["events"] /\ ~isSyncing["markets"]
        /\ \E link1 \in LinkChoices(markets, pairs) :
              LET m1 == AppliedLinks(markets, link1)
                  m2 == UpsertedMarkets(m1, [id \in DOMAIN ItemsOf(mItems) |->
                                                transformMarket(ItemsOf(mItems)[id])])
                  m3 == Deactivated(m2, ExpiredMarkets(m2, now))
              IN  \E link2 \in LinkChoices(m3, pairs) : markets' = AppliedLinks(m3, link2)
        /\ events' = e2
        /\ eventMarketPairs' = pairs
        /\ marketsSynced' = Notified(marketsSynced, "markets", TRUE)
        /\ lastOp' = Op("runInitialSync", "ok", fresh)

\* sync_state after the two runs of runInitialSync.
InitialSyncState ==
    updateSyncState(updateSyncState(syncState, "events", "idle", NULL), "markets", "idle", NULL)

RunInitialSync ==
    /\ InitialSyncRuns
    /\ syncState' = InitialSyncState
    /\ UNCHANGED <<isSyncing, syncRun, syncFrame>>

\* ---- runInitialSync, await by await
\* What the steps of runInitialSync leave alone of the orchestrator and the timers.
initialFrame == <<orchestrator, timers, realtime>>

\* runInitialSync from the answer of its count query to the first await of the
\* syncEvents it calls with includeClosed = isFreshDb.
InitialSyncEvents ==
    /\ initialSync.pc = "idle"
    /\ initialSync' = [ pc |-> "events", isFreshDb |-> isFreshDb(markets) ]
    /\ SyncEnter("events", isFreshDb(markets))
    /\ UNCHANGED initialFrame

\* syncEvents has returned, its error caught if it had one: syncMarkets is called
\* with the same includeClosed, up to its first await.
InitialSyncMarkets ==
    /\ initialSync.pc = "events"
    /\ syncRun["events"].pc = "idle"
    /\ initialSync' = [initialSync EXCEPT !.pc = "markets"]
    /\ SyncEnter("markets", initialSync.isFreshDb)
    /\ UNCHANGED initialFrame

\* syncMarkets has returned: applyEventMarketLinks, and the end of the call.
InitialSyncLinks ==
    /\ initialSync.pc = "markets"
    /\ syncRun["markets"].pc = "idle"
    /\ IF eventMarketPairs = {} THEN UNCHANGED markets
       ELSE \E link \in LinkChoices(markets, eventMarketPairs) :
               markets' = AppliedLinks(markets, link)
    /\ initialSync' = InitialSyncIdle
    /\ lastOp' = Op("runInitialSync", "ok", initialSync.isFreshDb)
    /\ UNCHANGED <<events, eventMarketPairs, syncState, isSyncing, syncRun, marketsSynced,
                   syncCore, initialFrame>>

\* The process stops and starts again (a redeploy): the tables stay, the
\* manager is constructed anew. `runs` is kept, being the count of the behaviour.
ProcessRestarts ==
    /\ initialSync' = InitialSyncIdle
    /\ isSyncing' = [ e \in {"events", "markets"} |-> FALSE ]
    /\ syncRun' = [ e \in {"events", "markets"} |->
                      [SyncRunIdle EXCEPT !.runs = syncRun[e].runs] ]
    /\ eventMarketPairs' = {}
    /\ marketsSynced' = 0
    /\ lastOp' = Op("restart", "ok", <<>>)
    /\ UNCHANGED <<markets, events, syncState, syncCore, initialFrame>>

\* runExpirationAudit: its statements up to the first that throws (all three
\* when done = 3); the error is logged.
RunExpirationAudit(done) ==
    /\ markets' = Audited(markets, events, now, done).markets
    /\ events' = Audited(markets, events, now, done).events
    /\ lastOp' = Op("runExpirationAudit", IF done = 3 THEN "ok" ELSE "error",
                    [ changed |-> markets' # markets \/ events' # events,
                      again |-> lastOp.op = "runExpirationAudit" /\ lastOp.result = "ok"
                                /\ lastOp.arg.changed ])
    /\ UNCHANGED <<batchVars, priceHistory, flushVars, backfill, received, now,
                   tradeVars, subscribedTokens, wsVars>>

\* ---- runCleanup (SyncOrchestrator), one step per DELETE
\* What runCleanup leaves alone.
cleanupCore == <<markets, events, eventMarketPairs, audit, isSyncing, syncRun, marketsSynced,
                 catalog, config, search, flushVars, backfill, received, now, isSyncingTrades,
                 tradesSync, syncState, subscribedTokens, wsVars>>
cleanupFrame == <<cleanupCore, hostVars>>

\* The phase after `pc`: the trades cleanup under enableTradesSync, else the end.
CleanupAfter(pc) == IF pc # "trades" /\ config.enableTradesSync = TRUE THEN "trades" ELSE "idle"

\* The locals on entering phase `pc`, or at the end of the call.
CleanupEnter(c, pc) ==
    IF pc = "idle" THEN [CleanupIdle EXCEPT !.sweeps = c.sweeps]
    ELSE [c EXCEPT !.pc = pc,
                   !.cutoff = now - (IF pc = "prices" THEN priceHistoryRetentionDays
                                     ELSE tradesRetentionDays)]

\* The call up to its first DELETE; with neither flag set it returns at once.
CleanupCall ==
    LET first == IF config.enablePriceHistory = TRUE THEN "prices" ELSE CleanupAfter("prices")
        begun == [cleanup EXCEPT !.sweeps = cleanup.sweeps + 1, !.deleted = 0,
                                 !.failed = FALSE]
    IN  /\ cleanup.pc = "idle"
        /\ cleanup.sweeps < MaxSweeps
        /\ cleanup' = CleanupEnter(begun, first)
        /\ lastOp' = Op("runCleanup", IF first = "idle" THEN "ok" ELSE "begin",
                        [failed |-> FALSE, deleted |-> 0])

CleanupStart ==
    /\ CleanupCall
    /\ UNCHANGED <<priceHistory, trades, cleanupFrame>>

\* One DELETE ... WHERE id IN (SELECT ... LIMIT 5000) RETURNING id; fewer rows
\* than the limit end the phase.
CleanupChunk ==
    LET table == IF cleanup.pc = "prices" THEN priceHistory ELSE trades
    IN  /\ cleanup.pc \in {"prices", "trades"}
        /\ \E S \in ChunksOf(OlderThan(table, cleanup.cutoff), cleanupChunkSize) :
              LET left == table (-) SetToBag(S)
                  after == IF Cardinality(S) < cleanupChunkSize THEN CleanupAfter(cleanup.pc)
                           ELSE cleanup.pc
                  counted == [cleanup EXCEPT !.deleted = cleanup.deleted + Cardinality(S)]
              IN  /\ priceHistory' = IF cleanup.pc = "prices" THEN left ELSE priceHistory
                  /\ trades' = IF cleanup.pc = "trades" THEN left ELSE trades
                  /\ cleanup' = IF after = cleanup.pc THEN counted
                                ELSE CleanupEnter(counted, after)
                  /\ lastOp' = Op("runCleanup",
                                  IF after # "idle" THEN "deleted"
                                  ELSE IF cleanup.failed THEN "error" ELSE "ok",
                                  [failed |-> cleanup.failed, deleted |-> counted.deleted])
        /\ UNCHANGED cleanupFrame

\* A DELETE throws: the catch block of the phase logs it, and the call goes on
\* with the next phase.
CleanupFail ==
    LET after == CleanupAfter(cleanup.pc)
        failed == [cleanup EXCEPT !.failed = TRUE]
    IN  /\ cleanup.pc \in {"prices", "trades"}
        /\ cleanup' = CleanupEnter(failed, after)
        /\ lastOp' = Op("runCleanup", IF after = "idle" THEN "error" ELSE "failed",
                        [failed |-> TRUE, deleted |-> cleanup.deleted])
        /\ UNCHANGED <<priceHistory, trades, cleanupFrame>>

\* ---- WebSocket clients (RealtimeSyncManager)
\* Connections (config wsConnections).
wsConnections == 2

\* Tokens per subscription frame (batchSize of sendSubscriptions, 500 in the
\* program, scaled down with the token universe).
wsBatchSize == 2

\* WebSocket objects created in one behaviour.
MaxSockets == 4

\* String.prototype.charCodeAt over the token ids in use.
CharCodes(tokenId) ==
    CASE tokenId = "t1" -> <<116, 49>>
      [] tokenId = "t2" -> <<116, 50>>
      [] tokenId = "t3" -> <<116, 51>>
      [] tokenId = "t5" -> <<116, 53>>

\* a ^ b on 16-bit operands.
RECURSIVE Xor(_, _, _)
Xor(a, b, bits) ==
    IF bits = 0 THEN 0
    ELSE (2 * Xor(a \div 2, b \div 2, bits - 1)) + (IF (a % 2) = (b % 2) THEN 0 ELSE 1)

\* One round of FNV-1a on h = hi * 2^16 + lo: h ^= c, then Math.imul(h,
\* 0x01000193), 0x01000193 being 256 * 2^16 + 403; the product is kept to 32 bits.
FnvRound(h, c) ==
    LET lo == Xor(h.lo, c, 16)
    IN  [ lo |-> (lo * 403) % 65536,
          hi |-> ((h.hi * 403) + ((lo * 403) \div 65536) + ((lo % 256) * 256)) % 65536 ]

RECURSIVE Fnv(_, _)
Fnv(h, codes) == IF codes = <<>> THEN h ELSE Fnv(FnvRound(h, Head(codes)), Tail(codes))

\* hashToken: FNV-1a from 0x811c9dc5, as an unsigned 32-bit number in two halves.
hashToken(tokenId) == Fnv([hi |-> 33052, lo |-> 40389], CharCodes(tokenId))

\* The hashes of the token ids in use, computed once.
KnownTokens == {"t1", "t2", "t3", "t5"}
tokenHashes == [ t \in KnownTokens |-> hashToken(t) ]

\* hashToken(tokenId) % n
ShardOf(tokenId, n) ==
    (((tokenHashes[tokenId].hi % n) * (65536 % n)) + (tokenHashes[tokenId].lo % n)) % n

\* assignTokenShards: the tokens pushed to client idx, in the order of the set.
AssignedTokens(tokens, n, idx) == SelectSeq(tokens, LAMBDA t : ShardOf(t, n) = idx)

\* Batching that stops after the first frame.
FirstBatchOnly(tokenIds) ==
    IF tokenIds = <<>> THEN <<>> ELSE << SubSeq(tokenIds, 1, Min(wsBatchSize, Len(tokenIds))) >>

\* batches of sendSubscriptions: slices of batchSize tokens.
RECURSIVE Batches(_)
Batches(tokenIds) ==
    IF tokenIds = <<>> THEN <<>>
    ELSE << SubSeq(tokenIds, 1, Min(wsBatchSize, Len(tokenIds))) >>
         \o Batches(SubSeq(tokenIds, Min(wsBatchSize, Len(tokenIds)) + 1, Len(tokenIds)))

\* initClients: a fresh client.
NewClient ==
    [ ws |-> 0, isConnected |-> FALSE, isConnecting |-> FALSE, reconnectAttempts |-> 0,
      assignedTokens |-> <<>>, subscribedTokens |-> {} ]

\* new WebSocket(url) of client c.
NewSocket(c) == [ client |-> c, readyState |-> "CONNECTING", sent |-> <<>>, chains |-> <<>> ]

Frame(initial, ids) ==
    IF initial THEN [type |-> "market", operation |-> "", assets_ids |-> ids]
    ELSE [type |-> "market", operation |-> "subscribe", assets_ids |-> ids]

\* sendSubscriptions whose sendNext starts again at the first batch.
SocketAfterSendFromStart(socket, tokenIds, initial) ==
    LET batches == Batches(tokenIds)
    IN  IF socket.readyState # "OPEN" \/ tokenIds = <<>> THEN socket
        ELSE [ socket EXCEPT
                 !.sent = IF initial THEN Append(@, Frame(TRUE, batches[1])) ELSE @,
                 !.chains = Append(@, [i |-> 0, batches |-> batches]) ]

\* sendSubscriptions(ws, tokenIds, opts): the socket after the synchronous part,
\* the first frame sent when initial and a sendNext chain pending when batches
\* remain.
SocketAfterSend(socket, tokenIds, initial) ==
    LET batches == Batches(tokenIds)
        i == IF initial THEN 1 ELSE 0
    IN  IF socket.readyState # "OPEN" \/ tokenIds = <<>> THEN socket
        ELSE [ socket EXCEPT
                 !.sent = IF initial THEN Append(@, Frame(TRUE, batches[1])) ELSE @,
                 !.chains = IF i < Len(batches)
                            THEN Append(@, [i |-> i, batches |-> batches]) ELSE @ ]

\* publishPricesStatus: the status of the clients, any connected one making it
\* 'connected'.
PricesStatus(cs) ==
    IF \E c \in DOMAIN cs : cs[c].isConnected THEN "connected" ELSE "disconnected"

\* publishPricesStatus without the comparison with the status published last.
publishPricesStatusAlways(published, cs) ==
    [ lastPublished |-> PricesStatus(cs), issued |-> PricesStatus(cs) ]

\* publishPricesStatus: nothing when the status is the one published last, else
\* the field set and updatePricesSyncState(status) called (its INSERT ... ON
\* CONFLICT DO UPDATE of sync_state is not awaited).
publishPricesStatus(published, cs) ==
    IF published.lastPublished = PricesStatus(cs)
    THEN [ published EXCEPT !.issued = "none" ]
    ELSE [ lastPublished |-> PricesStatus(cs), issued |-> PricesStatus(cs) ]

\* Can subscribeClientTokens go past its first return?
CanSubscribe(client, socks) ==
    /\ client.ws # 0
    /\ socks[client.ws].readyState = "OPEN"
    /\ client.assignedTokens # <<>>

\* start(): loadActiveTokens, initClients (which keeps the clients an earlier
\* resubscribe created, none of them connected yet), assignTokenShards and the
\* synchronous part of connectAll, a new socket per client.
RealtimeStart ==
    /\ sockets = <<>>
    /\ \E rows \in RowOrders(LiveMarkets(markets)) :
          /\ tokenToMarket' = LoadedMap(markets, rows)
          /\ subscribedTokens' = LoadedTokens(markets, rows)
    /\ clients' = [ c \in 0..(wsConnections - 1) |->
                      [ NewClient EXCEPT
                          !.assignedTokens = AssignedTokens(subscribedTokens', wsConnections, c),
                          !.isConnecting = TRUE,
                          !.ws = c + 1 ] ]
    /\ sockets' = [ s \in 1..wsConnections |-> NewSocket(s - 1) ]
    /\ reconnectTimers' = [ c \in 0..(wsConnections - 1) |-> 0 ]
    /\ lastOp' = Op("start", "connecting", <<>>)

Start ==
    /\ RealtimeStart
    /\ UNCHANGED <<markets, events, batchVars, priceHistory, priceBuffer, isFlushingPrices,
                   flush, flushLog, backfill, received, now, tradeVars, shouldReconnect, pricesStatus>>

\* The 'open' event of socket s: the handler of connectClient.
SocketOpens(s) ==
    /\ sockets[s].readyState = "CONNECTING"
    /\ LET c == sockets[s].client
           opened == [sockets EXCEPT ![s].readyState = "OPEN"]
           client == [clients[c] EXCEPT !.isConnecting = FALSE, !.isConnected = TRUE,
                                        !.reconnectAttempts = 0, !.subscribedTokens = {}]
       IN  IF CanSubscribe(client, opened)
           THEN /\ sockets' = [opened EXCEPT ![client.ws] =
                                 SocketAfterSend(@, client.assignedTokens, TRUE)]
                /\ clients' = [clients EXCEPT ![c] =
                                 [client EXCEPT !.subscribedTokens =
                                                    Range(client.assignedTokens)]]
           ELSE /\ sockets' = opened
                /\ clients' = [clients EXCEPT ![c] = client]
    /\ pricesStatus' = publishPricesStatus(pricesStatus, clients')
    /\ lastOp' = Op("ws open", "ok", s)
    /\ UNCHANGED <<markets, events, batchVars, priceHistory, flushVars, backfill, received,
                   now, tradeVars, subscribedTokens, shouldReconnect, reconnectTimers>>

\* A sendNext timer of socket s fires (chain k of the socket).
SendNext(s, k) ==
    /\ k \in 1..Len(sockets[s].chains)
    /\ LET chain == sockets[s].chains[k]
           others == [ j \in 1..(Len(sockets[s].chains) - 1) |->
                         sockets[s].chains[IF j < k THEN j ELSE j + 1] ]
       IN  IF sockets[s].readyState # "OPEN" \/ chain.i >= Len(chain.batches)
           THEN /\ sockets' = [sockets EXCEPT ![s].chains = others]
                /\ lastOp' = Op("sendNext", "done", s)
           ELSE /\ sockets' = [sockets EXCEPT
                      ![s].sent = Append(@, Frame(FALSE, chain.batches[chain.i + 1])),
                      ![s].chains = [@ EXCEPT ![k].i = chain.i + 1]]
                /\ lastOp' = Op("sendNext", "sent", s)
    /\ UNCHANGED <<markets, events, batchVars, priceHistory, flushVars, backfill, received,
                   now, tradeVars, subscribedTokens, shouldReconnect, pricesStatus, clients,
                   reconnectTimers>>

\* The connection of socket s goes down (the peer closes it, or the network
\* does): the socket leaves OPEN before any handler runs.
SocketDrops(s) ==
    /\ sockets[s].readyState \in {"CONNECTING", "OPEN"}
    /\ sockets' = [sockets EXCEPT ![s].readyState = "CLOSING"]
    /\ lastOp' = Op("ws drop", "ok", s)
    /\ UNCHANGED <<markets, events, batchVars, priceHistory, flushVars, backfill, received,
                   now, tradeVars, subscribedTokens, shouldReconnect, pricesStatus, clients,
                   reconnectTimers>>

\* The 'error' event of socket s, which fails with it: the handler of
\* connectClient.
SocketErrors(s) ==
    /\ sockets[s].readyState \in {"CONNECTING", "OPEN"}
    /\ sockets' = [sockets EXCEPT ![s].readyState = "CLOSING"]
    /\ clients' = [clients EXCEPT ![sockets[s].client].isConnecting = FALSE]
    /\ lastOp' = Op("ws error", "ok", s)
    /\ UNCHANGED <<markets, events, batchVars, priceHistory, flushVars, backfill, received,
                   now, tradeVars, subscribedTokens, shouldReconnect, pricesStatus, reconnectTimers>>

\* config.wsMaxReconnectAttempts (10 by default) and config.wsReconnectInterval.
wsMaxReconnectAttempts == 1
wsReconnectInterval == 3000

\* 2^n
RECURSIVE Pow2(_)
Pow2(n) == IF n = 0 THEN 1 ELSE 2 * Pow2(n - 1)

\* scheduleReconnect: the delay of the timer after the given number of attempts.
ReconnectDelay(attempts) ==
    IF attempts > wsMaxReconnectAttempts THEN 60000
    ELSE Min(wsReconnectInterval * Pow2(attempts - 1), 30000)

\* A manager that gives up after wsMaxReconnectAttempts attempts.
ScheduledUpToMax(pending, attempts) ==
    IF attempts > wsMaxReconnectAttempts THEN pending ELSE pending + 1

\* A scheduleReconnect that arms a second timer beside the first.
ScheduledTwice(pending, attempts) == pending + 2

\* scheduleReconnect: the pending timers of a client after its setTimeout,
\* which comes whatever the number of attempts.
Scheduled(pending, attempts) == pending + 1

\* The 'close' event of socket s: the handler of connectClient, and
\* scheduleReconnect up to its setTimeout.
SocketCloses(s) ==
    /\ sockets[s].readyState = "CLOSING"
    /\ sockets' = [sockets EXCEPT ![s].readyState = "CLOSED"]
    /\ LET c == sockets[s].client
       IN  /\ clients' = [clients EXCEPT
                 ![c].isConnecting = FALSE, ![c].isConnected = FALSE,
                 ![c].reconnectAttempts = IF shouldReconnect THEN @ + 1 ELSE @]
           /\ reconnectTimers' = [reconnectTimers EXCEPT
                 ![c] = IF shouldReconnect
                        THEN Scheduled(@, clients[c].reconnectAttempts + 1) ELSE @]
    /\ pricesStatus' = publishPricesStatus(pricesStatus, clients')
    /\ lastOp' = Op("ws close", "ok", s)
    /\ UNCHANGED <<markets, events, batchVars, priceHistory, flushVars, backfill, received,
                   now, tradeVars, subscribedTokens, shouldReconnect>>

\* A timer callback that does not look at shouldReconnect.
TimerConnectsAnyway(should, client) == ~client.isConnected /\ ~client.isConnecting

\* The callback of scheduleReconnect's timer and the guard of connectClient:
\* does the timer create a socket?
TimerConnects(should, client) ==
    /\ should /\ ~client.isConnected
    /\ ~(client.isConnecting \/ client.isConnected)

\* The timer of scheduleReconnect fires for client c: connectClient unless the
\* client is connected, connecting or told to stay down.
ReconnectTimerFires(c) ==
    /\ reconnectTimers[c] > 0
    /\ reconnectTimers' = [reconnectTimers EXCEPT ![c] = @ - 1]
    /\ IF TimerConnects(shouldReconnect, clients[c])
       THEN /\ Len(sockets) < MaxSockets
            /\ sockets' = Append(sockets, NewSocket(c))
            /\ clients' = [clients EXCEPT ![c].isConnecting = TRUE,
                                          ![c].ws = Len(sockets) + 1]
            /\ lastOp' = Op("reconnect", "connecting", c)
       ELSE /\ lastOp' = Op("reconnect", "skipped", c)
            /\ UNCHANGED <<sockets, clients>>
    /\ UNCHANGED <<markets, events, batchVars, priceHistory, flushVars, backfill, received,
                   now, tradeVars, subscribedTokens, shouldReconnect, pricesStatus>>

\* A resubscribe that sends the whole shard again.
ToAddWholeShard(next, subscribed) == next

\* toAdd of resubscribe: next.filter(t => !c.subscribedTokens.has(t))
ToAdd(next, subscribed) == SelectSeq(next, LAMBDA t : t \notin subscribed)

\* resubscribe(): the tokens reloaded, the clients created when there are none
\* yet (initClients), the shards reassigned; every connected client is sent the
\* tokens of its shard that it has not subscribed.
Resubscribe ==
    /\ \E rows \in RowOrders(LiveMarkets(markets)) :
          /\ tokenToMarket' = LoadedMap(markets, rows)
          /\ subscribedTokens' = LoadedTokens(markets, rows)
    /\ LET n == wsConnections
           inited == IF clients = <<>> THEN [ c \in 0..(n - 1) |-> NewClient ] ELSE clients
           assigned(c) == AssignedTokens(subscribedTokens', n, c)
           toAdd(c) == ToAdd(assigned(c), inited[c].subscribedTokens)
           sends(c) == inited[c].ws # 0 /\ inited[c].isConnected /\ toAdd(c) # <<>>
       IN  /\ clients' = [ c \in DOMAIN inited |->
                 [ inited[c] EXCEPT
                     !.assignedTokens = assigned(c),
                     !.subscribedTokens = IF sends(c) THEN @ \cup Range(toAdd(c)) ELSE @ ] ]
           /\ sockets' = [ s \in DOMAIN sockets |->
                 IF \E c \in DOMAIN inited : sends(c) /\ inited[c].ws = s
                 THEN SocketAfterSend(sockets[s], toAdd(sockets[s].client), FALSE)
                 ELSE sockets[s] ]
           /\ reconnectTimers' = IF clients = <<>> THEN [ c \in 0..(n - 1) |-> 0 ]
                                 ELSE reconnectTimers
    /\ lastOp' = Op("resubscribe", "ok", <<>>)
    /\ UNCHANGED <<markets, events, batchVars, priceHistory, priceBuffer, isFlushingPrices,
                   flush, flushLog, backfill, received, now, tradeVars, shouldReconnect, pricesStatus>>

\* ---- SyncOrchestrator, the timers it and the batch manager arm, and stop()
\* isRunning and cleanupInterval are the fields; start and stop say where the
\* calls of start() and stop() are.
OrchestratorIdle ==
    [ isRunning |-> FALSE, cleanupInterval |-> FALSE, start |-> "idle", stop |-> "idle" ]

\* intervals: the live setInterval timers of startPeriodicSync (this.intervals);
\* timeouts: the pending setTimeout timers, which no field keeps.
TimersNone == [ intervals |-> {}, timeouts |-> {} ]

\* flushInterval, where stop() of the realtime manager is, and for that call
\* the buffer it found (atStop) and the snapshot of the flush that was in
\* flight or that it started (submitted).
RealtimeIdle == [ flushInterval |-> FALSE, stop |-> "idle", atStop |-> <<>>, submitted |-> <<>> ]

\* Everything but the orchestrator, the timers and the flush timer.
allCore == <<markets, events, eventMarketPairs, audit, runCore, priceHistory, flushVars,
             backfill, received, now, tradeVars, subscribedTokens, wsVars, initialSync>>

\* What stop() of the realtime manager leaves alone, the flush apart.
stopCore == <<markets, events, eventMarketPairs, audit, runCore, priceHistory, tokenToMarket,
              priceBuffer, backfill, received, now, tradeVars, subscribedTokens,
              reconnectTimers, initialSync>>

\* The loop of stop() over the clients: close() on each socket, the fields reset.
ClientsStopped ==
    [ c \in DOMAIN clients |->
        [ clients[c] EXCEPT !.ws = 0, !.isConnected = FALSE, !.isConnecting = FALSE,
                            !.reconnectAttempts = 0, !.subscribedTokens = {} ] ]

SocketsStopped ==
    [ s \in DOMAIN sockets |->
        IF /\ \E c \in DOMAIN clients : clients[c].ws = s
           /\ sockets[s].readyState \in {"CONNECTING", "OPEN"}
        THEN [sockets[s] EXCEPT !.readyState = "CLOSING"]
        ELSE sockets[s] ]

\* stop() of the realtime manager up to the end of its `await flushPrices()`:
\* flushPrices returns at once while a flush is in flight or the buffer is
\* empty, and stop() then runs to its end; otherwise the flush begins and
\* stop() waits for it.
RealtimeStopCall ==
    /\ realtime.stop = "idle"
    /\ shouldReconnect' = FALSE
    /\ IF isFlushingPrices \/ priceBuffer = <<>>
       THEN /\ realtime' = [ flushInterval |-> FALSE, stop |-> "returned",
                             atStop |-> priceBuffer,
                             submitted |-> IF isFlushingPrices THEN flush.snapshot ELSE <<>> ]
            /\ clients' = ClientsStopped
            /\ pricesStatus' = publishPricesStatus(pricesStatus, ClientsStopped)
            /\ sockets' = SocketsStopped
            /\ lastOp' = Op("stop", "returned", isFlushingPrices)
            /\ UNCHANGED <<isFlushingPrices, flush, flushLog>>
       ELSE /\ FlushCall
            /\ realtime' = [ flushInterval |-> FALSE, stop |-> "flushing",
                             atStop |-> priceBuffer, submitted |-> priceBuffer ]
            /\ UNCHANGED <<clients, sockets, pricesStatus>>

\* The flush stop() started has ended: the loop over the clients, the return.
RealtimeStopResume ==
    /\ realtime.stop = "flushing"
    /\ ~isFlushingPrices
    /\ realtime' = [realtime EXCEPT !.stop = "returned"]
    /\ clients' = ClientsStopped
    /\ pricesStatus' = publishPricesStatus(pricesStatus, ClientsStopped)
    /\ sockets' = SocketsStopped
    /\ lastOp' = Op("stop", "returned", FALSE)
    /\ UNCHANGED <<shouldReconnect, isFlushingPrices, flush, flushLog>>

\* RealtimeSyncManager.stop() called on its own.
Stop ==
    /\ RealtimeStopCall
    /\ UNCHANGED <<stopCore, orchestrator, timers, initialSync>>

StopResume ==
    /\ RealtimeStopResume
    /\ UNCHANGED <<stopCore, orchestrator, timers, initialSync>>

\* The last statement of start() of the realtime manager, startFlushInterval,
\* for a manager that is not being stopped.
StartFlushInterval ==
    /\ realtime.stop = "idle"
    /\ ~realtime.flushInterval
    /\ realtime' = [realtime EXCEPT !.flushInterval = TRUE]
    /\ lastOp' = Op("start", "ok", <<>>)
    /\ UNCHANGED <<allCore, orchestrator, timers, initialSync>>

\* The flush timer of startFlushInterval fires.
FlushTimerFires ==
    /\ realtime.flushInterval
    /\ FlushBegin

\* The flush timer fires and flushPrices returns at one of its guards.
FlushTimerSkips ==
    /\ realtime.flushInterval
    /\ FlushGuard(isFlushingPrices, priceBuffer) # "run"
    /\ lastOp' = Op("flushPrices", "skipped", FlushGuard(isFlushingPrices, priceBuffer))
    /\ UNCHANGED <<allCore, hostVars>>

\* start() of the orchestrator up to the first await of runInitialSync.
OrchStart ==
    /\ ~orchestrator.isRunning
    /\ orchestrator.start = "idle"
    /\ orchestrator' = [orchestrator EXCEPT !.isRunning = TRUE, !.start = "initialSync"]
    /\ lastOp' = Op("orchestrator.start", "begin", <<>>)
    /\ UNCHANGED <<allCore, timers, realtime, initialSync>>

\* The timers of startPeriodicSync: the intervals it pushes, the timeouts it
\* leaves behind.
PeriodicTimers ==
    [ intervals |-> timers.intervals \cup {"markets", "audit", "clobAudit"}
                    \cup (IF config.enableTradesSync = TRUE THEN {"trades"} ELSE {}),
      timeouts |-> timers.timeouts \cup {"eventsStagger", "clobAudit"} ]

\* runInitialSync resolves, and start() goes on to startPeriodicSync and into
\* realtimeSync.start() up to its first await; the write of 'disabled' for the
\* trades is not awaited and its failure is swallowed.
OrchInitialSync ==
    /\ orchestrator.start = "initialSync"
    /\ InitialSyncRuns
    /\ \E written \in BOOLEAN :
          syncState' = IF config.enableTradesSync # TRUE /\ written
                       THEN updateSyncState(InitialSyncState, "trades", "disabled", NULL)
                       ELSE InitialSyncState
    /\ timers' = PeriodicTimers
    /\ orchestrator' = [orchestrator EXCEPT !.start = "realtime"]
    /\ UNCHANGED <<isSyncing, syncRun, syncCore, realtime, initialSync>>

\* realtimeSync.start() up to the await of connectAll.
OrchRealtimeStart ==
    /\ orchestrator.start = "realtime"
    /\ RealtimeStart
    /\ orchestrator' = [orchestrator EXCEPT !.start = "connectAll"]
    /\ UNCHANGED <<markets, events, eventMarketPairs, audit, runCore, priceHistory, priceBuffer,
                   isFlushingPrices, flush, flushLog, backfill, received, now, tradeVars,
                   shouldReconnect, pricesStatus, timers, realtime, initialSync>>

\* Every promise of connectAll has settled: startFlushInterval, then
\* startCleanupJob, and start() returns.
OrchStarted ==
    /\ orchestrator.start = "connectAll"
    /\ \A s \in 1..wsConnections : sockets[s].readyState # "CONNECTING"
    /\ realtime' = [realtime EXCEPT !.flushInterval = TRUE]
    /\ timers' = [timers EXCEPT !.timeouts = @ \cup {"cleanup"}]
    /\ orchestrator' = [orchestrator EXCEPT !.start = "started", !.cleanupInterval = TRUE]
    /\ lastOp' = Op("orchestrator.start", "ok", <<>>)
    /\ UNCHANGED allCore

\* stop() of the orchestrator: clearInterval of cleanupInterval, batchSync.stop()
\* (clearInterval of every timer in this.intervals), realtimeSync.stop(); it
\* returns when that call does.
OrchStop ==
    /\ orchestrator.isRunning
    /\ orchestrator.stop = "idle"
    /\ RealtimeStopCall
    /\ timers' = [timers EXCEPT !.intervals = {}]
    /\ orchestrator' = IF realtime'.stop = "returned"
                       THEN [orchestrator EXCEPT !.cleanupInterval = FALSE,
                                                 !.isRunning = FALSE, !.stop = "returned"]
                       ELSE [orchestrator EXCEPT !.cleanupInterval = FALSE,
                                                 !.stop = "flushing"]
    /\ UNCHANGED stopCore

OrchStopReturn ==
    /\ orchestrator.stop = "flushing"
    /\ RealtimeStopResume
    /\ orchestrator' = [orchestrator EXCEPT !.isRunning = FALSE, !.stop = "returned"]
    /\ UNCHANGED <<stopCore, timers, initialSync>>

\* An interval of startPeriodicSync fires: its callback up to the first await.
IntervalFires(t) ==
    /\ t \in timers.intervals
    /\ CASE t = "markets" -> SyncCall("markets", FALSE)
         [] t = "events" -> SyncCall("events", FALSE)
         [] t = "trades" -> TradesBegin \/ TradesDropped
         [] t = "audit" -> \E done \in 0..3 : RunExpirationAudit(done)
         [] t = "clobAudit" -> AuditPass1

\* The interval of startCleanupJob fires.
CleanupIntervalFires ==
    /\ orchestrator.cleanupInterval
    /\ CleanupStart

\* The timeout of startPeriodicSync that staggers the events sync fires: the
\* events interval is created and pushed.
EventsStaggerFires ==
    /\ "eventsStagger" \in timers.timeouts
    /\ timers' = [ intervals |-> timers.intervals \cup {"events"},
                   timeouts |-> timers.timeouts \ {"eventsStagger"} ]
    /\ lastOp' = Op("setTimeout", "events interval", <<>>)
    /\ UNCHANGED <<allCore, orchestrator, realtime, initialSync>>

\* The timeout `setTimeout(() => this.auditClobTradability(), 2 * 60_000)` fires.
ClobAuditTimeoutFires ==
    /\ "clobAudit" \in timers.timeouts
    /\ timers' = [timers EXCEPT !.timeouts = @ \ {"clobAudit"}]
    /\ AuditCall
    /\ UNCHANGED <<auditCore, orchestrator, realtime, initialSync>>

\* The timeout `setTimeout(() => this.runCleanup(), 5 * 60 * 1000)` fires.
CleanupTimeoutFires ==
    /\ "cleanup" \in timers.timeouts
    /\ timers' = [timers EXCEPT !.timeouts = @ \ {"cleanup"}]
    /\ CleanupCall
    /\ UNCHANGED <<priceHistory, trades, cleanupCore, orchestrator, realtime, initialSync>>

\* ---- full-text search columns (upsertEventsBatch / upsertMarketsBatch)
\* The text columns of the catalog rows and their search_vector are kept apart
\* from the rows of `markets` and `events`, under the same ids. A text is a
\* sequence of words (<<>> for NULL or ''), a tsvector the set of its lexemes
\* with their weights (positions are left out), a nullable tsvector <<>> or <<v>>.
\* The 'english' configuration on the words of the model: lower case, the
\* plural stemmed, the stop word dropped.
StopWords == {"the"}

Lexeme(word) ==
    CASE word = "Rain" -> "rain"
      [] word = "rains" -> "rain"
      [] word = "Weather" -> "weather"
      [] OTHER -> word

\* to_tsvector('english', text): weight D is the default.
to_tsvector(text) ==
    { [lexeme |-> Lexeme(w), weight |-> "D"] : w \in Range(text) \ StopWords }

setweight(vector, weight) == { [lexeme |-> x.lexeme, weight |-> weight] : x \in vector }

\* The vector computed by the triggers of migration 0001 (BEFORE INSERT OR
\* UPDATE OF the text columns): question or title A, description B, category C.
TriggerVector(e, row) ==
    IF e = "markets"
    THEN setweight(to_tsvector(row.question), "A")
         \cup setweight(to_tsvector(row.description), "B")
         \cup setweight(to_tsvector(row.category), "C")
    ELSE setweight(to_tsvector(row.title), "A")
         \cup setweight(to_tsvector(row.description), "B")

\* The vector the batch upsert recomputes and the trigger's vector taken for it.
BatchVectorAsTrigger(e, row) == TriggerVector(e, row)

\* to_tsvector('english', question || ' ' || coalesce(description, '')), title
\* for question in the events table.
BatchVector(e, row) ==
    to_tsvector((IF e = "markets" THEN row.question ELSE row.title) \o row.description)

\* The text columns of one row as the INSERT ... ON CONFLICT DO UPDATE leaves
\* them: the excluded values; search_vector is not in the VALUES and not in the
\* SET list, so it is the trigger's vector where the triggers are installed,
\* else NULL in a new row and the old vector in a merged one.
UpsertedText(e, table, id, text, triggers) ==
    [ c \in DOMAIN text \cup {"searchVector"} |->
        IF c # "searchVector" THEN text[c]
        ELSE IF triggers THEN << TriggerVector(e, text) >>
        ELSE IF id \in DOMAIN table THEN table[id].searchVector
        ELSE <<>> ]

UpsertedTexts(e, table, texts, triggers) ==
    [ id \in DOMAIN table \cup DOMAIN texts |->
        IF id \in DOMAIN texts THEN UpsertedText(e, table, id, texts[id], triggers)
        ELSE table[id] ]

\* UPDATE ... SET search_vector = to_tsvector(...) WHERE id IN (ids)
Revectored(e, table, ids) ==
    [ id \in DOMAIN table |->
        IF id \in ids THEN [table[id] EXCEPT !.searchVector = << BatchVector(e, table[id]) >>]
        ELSE table[id] ]

\* No text stored, no batch upsert in flight; `triggers` tells whether the
\* database has the triggers of migration 0001.
SearchIdle(triggers) ==
    [ triggers |-> triggers, events |-> <<>>, markets |-> <<>>,
      call |-> [ e \in {"events", "markets"} |-> {} ] ]

\* What the batch upserts leave alone besides the table they write.
upsertCore == <<eventMarketPairs, audit, isSyncing, syncRun, marketsSynced, catalog, cleanup,
                config, orchestrator, timers, realtime, initialSync, priceHistory, flushVars, backfill,
                received, now, tradeVars, subscribedTokens, wsVars>>

\* upsertEventsBatch / upsertMarketsBatch up to the end of its first statement:
\* the multi-row INSERT ... ON CONFLICT DO UPDATE of the page, `texts` being the
\* text columns the page carries.
UpsertBatchInsert(e, page, texts) ==
    /\ search.call[e] = {}
    /\ IF e = "markets"
       THEN /\ markets' = UpsertedMarkets(markets, [id \in DOMAIN page |->
                                                      transformMarket(page[id])])
            /\ UNCHANGED events
       ELSE /\ events' = UpsertedEvents(events, page)
            /\ UNCHANGED markets
    /\ search' = [search EXCEPT ![e] = UpsertedTexts(e, search[e], texts, search.triggers),
                                !.call[e] = DOMAIN page]
    /\ lastOp' = Op("upsertBatch", "insert", e)
    /\ UNCHANGED upsertCore

\* Its second statement: the UPDATE of the search vectors of the page's rows.
UpsertBatchVectors(e) ==
    /\ search.call[e] # {}
    /\ search' = [search EXCEPT ![e] = Revectored(e, search[e], search.call[e]),
                                !.call[e] = {}]
    /\ lastOp' = Op("upsertBatch", "search vectors", e)
    /\ UNCHANGED <<markets, events, upsertCore>>

\* The second statement throws: the error leaves the method, the INSERT stays
\* committed.
UpsertBatchFail(e) ==
    /\ search.call[e] # {}
    /\ search' = [search EXCEPT !.call[e] = {}]
    /\ lastOp' = Op("upsertBatch", "error", e)
    /\ UNCHANGED <<markets, events, upsertCore>>

\* GET /events?search=term: the events whose search_vector matches every word
\* of the term (the words of the model are not prefixes of one another, so the
\* prefix match `word:*` is the match of the lexeme).
SearchMatches(vector, term) ==
    /\ vector # <<>>
    /\ \A w \in Range(term) : \E x \in vector[1] : x.lexeme = Lexeme(w)

SearchEvents(term) ==
    /\ lastOp' = Op("GET /events", "ok",
                    { id \in DOMAIN search.events :
                        SearchMatches(search.events[id].searchVector, term) })
    /\ UNCHANGED <<markets, events, search, upsertCore>>

\* ---- the parts of the state a run does not use, as construction leaves them
TradesAtRest ==
    /\ trades = EmptyBag
    /\ isSyncingTrades = FALSE
    /\ tradesSync = TradesSyncIdle

\* The orchestrator, its timers and the flush timer as the constructors leave
\* them: nothing started, no timer armed; no text stored.
TimersAtRest ==
    /\ orchestrator = OrchestratorIdle
    /\ timers = TimersNone
    /\ realtime = RealtimeIdle
    /\ initialSync = InitialSyncIdle

HostAtRest ==
    /\ TimersAtRest
    /\ search = SearchIdle(FALSE)

RunsAtRest ==
    /\ HostAtRest
    /\ syncState = SyncStateEmpty
    /\ isSyncing = [ e \in {"events", "markets"} |-> FALSE ]
    /\ syncRun = [ e \in {"events", "markets"} |-> SyncRunIdle ]
    /\ marketsSynced = 0
    /\ catalog = [ events |-> <<>>, markets |-> <<>> ]
    /\ cleanup = CleanupIdle
    /\ config = [ enablePriceHistory |-> TRUE, enableTradesSync |-> TRUE ]

WsAtRest ==
    /\ shouldReconnect = TRUE
    /\ clients = <<>>
    /\ sockets = <<>>
    /\ reconnectTimers = <<>>
    /\ pricesStatus = [ lastPublished |-> NULL, issued |-> "none" ]

\* ================================================== realtime price pipeline
\* Two live markets, m1 with tokens t1, t2 and m2 with token t3, as the catalog
\* sync stored them; the feed, the flush timer, the backfill and the clock run
\* against them.
RawMarket(id, tokenIds, closed, active, archived, endDateIso) ==
    [ id |-> id, conditionId |-> "c-" \o id,
      outcomes |-> Json(<<"Yes", "No">>), outcomePrices |-> Json(<<50, 50>>),
      clobTokenIds |-> tokenIds, endDateIso |-> endDateIso,
      closed |-> closed, active |-> active, archived |-> archived, volume24hr |-> 1 ]

FlushMarketPage ==
    [ id \in {"m1", "m2"} |->
        RawMarket(id, IF id = "m1" THEN Json(<<"t1", "t2">>) ELSE Json(<<"t3">>),
                  "false", "true", "false", <<>>) ]

\* price_changes arrays the feed may deliver: prices for t1, t2 and t3, a token
\* that is not tracked, and a price that does not parse.
FeedMessages ==
    { << [asset_id |-> "t1", price |-> <<40>>], [asset_id |-> "t2", price |-> <<55>>] >>,
      << [asset_id |-> "t1", price |-> <<42>>] >>,
      << [asset_id |-> "t9", price |-> <<40>>], [asset_id |-> "t2", price |-> <<>>],
         [asset_id |-> "t3", price |-> <<60>>] >> }

\* Answers of getPriceHistory.
Histories ==
    { <<>>, << [t |-> 0, p |-> 40] >>, << [t |-> 0, p |-> 40], [t |-> 1, p |-> 45] >> }

\* The state after start(): the catalog page stored, the tokens loaded.
InitRealtime(page) ==
    /\ markets = UpsertedMarkets(<<>>, [id \in DOMAIN page |-> transformMarket(page[id])])
    /\ events = <<>>
    /\ eventMarketPairs = {}
    /\ audit = AuditIdle
    /\ priceHistory = EmptyBag
    /\ \E rows \in RowOrders(LiveMarkets(markets)) :
          /\ tokenToMarket = LoadedMap(markets, rows)
          /\ subscribedTokens = LoadedTokens(markets, rows)
    /\ priceBuffer = <<>>
    /\ isFlushingPrices = FALSE
    /\ flush = FlushIdle
    /\ flushLog = FlushLogInit
    /\ backfill = BackfillIdle
    /\ received = 0
    /\ now = 0
    /\ TradesAtRest
    /\ RunsAtRest
    /\ WsAtRest
    /\ lastOp = Op("start", "ok", <<>>)

InitFlush == InitRealtime(FlushMarketPage)

NextFlush ==
    \/ Tick
    \/ \E changes \in FeedMessages : HandleMessage(changes)
    \/ FlushBegin
    \/ FlushRead
    \/ FlushInsert
    \/ FlushUpdate
    \/ FlushFail

SpecFlush == InitFlush /\ [][NextFlush]_vars

\* ====================================================== price sample store
\* The writers of price_history side by side: the flush of market m1's feed and
\* backfill runs (and re-runs) of m1.
SamplesMarketPage == [ id \in {"m1"} |-> FlushMarketPage[id] ]

InitSamples == InitRealtime(SamplesMarketPage)

NextSamples ==
    \/ NextFlush
    \/ \E marketId \in DOMAIN markets : BackfillRead(marketId)
    \/ \E history \in Histories : BackfillFetch(history)
    \/ BackfillInsertBatch
    \/ BackfillFail

SpecSamples == InitSamples /\ [][NextSamples]_vars

\* ================================================================= catalog
\* The catalog sync and the audits side by side on one market m1 (tokens t1,
\* t2) and one event e1, for the combinations of flags a catalog page may report.
\* (closed, active, archived) as a page reports them.
ReportedFlags ==
    { <<"false", "true", "false">>, <<"true", "true", "false">>,
      <<"false", "true", "true">>, <<"true", "false", "false">>,
      <<"false", "false", "false">>, <<"undefined", "undefined", "undefined">> }

\* End dates a page may report: none, or instant 0.
ReportedEndDates == { <<>>, <<0>> }

CatalogMarketPages ==
    { [ id \in {"m1"} |-> RawMarket(id, Json(<<"t1", "t2">>), f[1], f[2], f[3], d) ] :
        f \in ReportedFlags, d \in ReportedEndDates }

GammaEvent(id, f, endDate, nested) ==
    [ id |-> id, end_date |-> endDate, closed |-> f[1], active |-> f[2],
      archived |-> f[3], markets |-> nested ]

CatalogEventPages ==
    { [ id \in {"e1"} |-> GammaEvent(id, f, d, nested) ] :
        f \in ReportedFlags, d \in ReportedEndDates, nested \in { <<>>, <<"m1">> } }

InitCatalog ==
    /\ markets = <<>>
    /\ events = <<>>
    /\ eventMarketPairs = {}
    /\ audit = AuditIdle
    /\ priceHistory = EmptyBag
    /\ tokenToMarket = <<>>
    /\ priceBuffer = <<>>
    /\ isFlushingPrices = FALSE
    /\ flush = FlushIdle
    /\ flushLog = FlushLogInit
    /\ backfill = BackfillIdle
    /\ received = 0
    /\ subscribedTokens = <<>>
    /\ now = 0
    /\ TradesAtRest
    /\ RunsAtRest
    /\ WsAtRest
    /\ lastOp = Op("start", "ok", <<>>)

NextCatalog ==
    \/ Tick
    \/ \E page \in CatalogMarketPages : UpsertMarketsBatch(page)
    \/ SyncEventsStart
    \/ \E page \in CatalogEventPages : UpsertEventsBatch(page)
    \/ ApplyEventMarketLinks
    \/ AuditExpiredMarkets
    \/ AuditEventsWithNoActiveMarkets
    \/ AuditExpiredEvents
    \/ AuditPass1
    \/ AuditPass1b
    \/ AuditPass2
    \/ AuditCloseMarkets
    \/ AuditCloseEvents
    \/ AuditFail

SpecCatalog == InitCatalog /\ [][NextCatalog]_vars

\* =============================================================== lifecycle
\* Every writer of the markets and events tables side by side: the catalog
\* upserts, linking, the audits and the realtime flush, on one market and one
\* event that the catalog reports open, closed or archived.
LifecycleFlags ==
    { <<"false", "true", "false">>, <<"true", "true", "false">>,
      <<"false", "true", "true">> }

LifecycleMarketPages ==
    { [ id \in {"m1"} |-> RawMarket(id, Json(<<"t1", "t2">>), f[1], f[2], f[3], <<0>>) ] :
        f \in LifecycleFlags }

LifecycleEventPages ==
    { [ id \in {"e1"} |-> GammaEvent(id, f, <<0>>, <<"m1">>) ] : f \in LifecycleFlags }

\* The feed of these runs: one price for t1.
LifecycleFeed == { << [asset_id |-> "t1", price |-> <<40>>] >> }

\* The clock stands at instant 1: the end date the pages report is past.
InitLifecycle ==
    /\ markets = <<>>
    /\ events = <<>>
    /\ eventMarketPairs = {}
    /\ audit = AuditIdle
    /\ priceHistory = EmptyBag
    /\ tokenToMarket = <<>>
    /\ priceBuffer = <<>>
    /\ isFlushingPrices = FALSE
    /\ flush = FlushIdle
    /\ flushLog = FlushLogInit
    /\ backfill = BackfillIdle
    /\ received = 0
    /\ subscribedTokens = <<>>
    /\ now = 1
    /\ TradesAtRest
    /\ RunsAtRest
    /\ WsAtRest
    /\ lastOp = Op("start", "ok", <<>>)

NextLifecycle ==
    \/ \E page \in LifecycleMarketPages : UpsertMarketsBatch(page)
    \/ SyncEventsStart
    \/ \E page \in LifecycleEventPages : UpsertEventsBatch(page)
    \/ ApplyEventMarketLinks
    \/ AuditExpiredMarkets
    \/ AuditEventsWithNoActiveMarkets
    \/ AuditExpiredEvents
    \/ AuditPass1
    \/ AuditPass1b
    \/ AuditPass2
    \/ AuditCloseMarkets
    \/ AuditCloseEvents
    \/ AuditFail
    \/ LoadActiveTokens
    \/ \E changes \in LifecycleFeed : HandleMessage(changes)
    \/ FlushBegin
    \/ FlushRead
    \/ FlushInsert
    \/ FlushUpdate

SpecLifecycle == InitLifecycle /\ [][NextLifecycle]_vars

\* ================================================================== shapes
\* Catalog pages whose JSON-encoded lists are present, missing, unparsable or
\* of differing lengths, stored by the catalog sync and then priced by the flush.
\* (outcomes, outcomePrices, clobTokenIds) as a page carries them.
ReportedShapes ==
    { <<Json(<<"Yes", "No">>), Json(<<50, 50>>), Json(<<"t1", "t2">>)>>,
      <<Json(<<"Yes", "No">>), Json(<<50, 50>>), Absent>>,
      <<Json(<<"Yes", "No">>), Json(<<50, 50>>), Garbage>>,
      <<Json(<<"Yes", "No">>), Absent, Json(<<"t1", "t2">>)>>,
      <<Garbage, Absent, Json(<<"t1", "t2">>)>>,
      <<Json(<<"A", "B", "C">>), Json(<<50>>), Json(<<"t1", "t2">>)>>,
      <<Json(<<"Yes", "No">>), Json(<<50, 50>>), Json(<<"t1", "t2", "t3">>)>> }

ShapedMarketPages ==
    { [ id \in {"m1"} |->
          [ id |-> id, conditionId |-> "c-" \o id,
            outcomes |-> s[1], outcomePrices |-> s[2], clobTokenIds |-> s[3],
            endDateIso |-> <<>>, closed |-> "false", active |-> "true",
            archived |-> "false", volume24hr |-> 1 ] ] : s \in ReportedShapes }

\* Prices for the second and the third token.
ShapedFeed ==
    { << [asset_id |-> "t2", price |-> <<55>>] >>,
      << [asset_id |-> "t3", price |-> <<60>>] >> }

InitShapes == InitCatalog

NextShapes ==
    \/ \E page \in ShapedMarketPages : UpsertMarketsBatch(page)
    \/ LoadActiveTokens
    \/ \E changes \in ShapedFeed : HandleMessage(changes)
    \/ FlushBegin
    \/ FlushRead
    \/ FlushInsert
    \/ FlushUpdate
    \/ FlushFail

SpecShapes == InitShapes /\ [][NextShapes]_vars

\* ================================================================== trades
\* The trades sync run again and again over feeds drawn from four trades, on the
\* two live markets of the price pipeline, one of which the catalog may close.
Trade(asset, side, price, size, timestamp, transactionHash, proxyWallet) ==
    [ asset |-> asset, side |-> side, price |-> price, size |-> size,
      timestamp |-> timestamp, transactionHash |-> transactionHash,
      proxyWallet |-> proxyWallet ]

\* Two trades that differ in size only, one without hash and wallet, and one of a
\* token no market carries.
FeedTrades ==
    { Trade("t1", "BUY", 40, 10, 0, <<"0xa">>, <<"0xw">>),
      Trade("t1", "BUY", 40, 20, 0, <<"0xa">>, <<"0xw">>),
      Trade("t3", "SELL", 60, 5, 1, <<>>, <<>>),
      Trade("t9", "BUY", 40, 10, 0, <<"0xb">>, <<"0xw">>) }

\* Longest feed getPublicTrades answers with.
MaxFeed == 2

TradeFeeds == UNION { [1..n -> FeedTrades] : n \in 0..MaxFeed }

ClosingPage ==
    [ id \in {"m1"} |-> RawMarket(id, Json(<<"t1", "t2">>), "true", "false", "false", <<>>) ]

InitTrades == InitRealtime(FlushMarketPage)

NextTrades ==
    \/ TradesBegin
    \/ TradesReadMarkets
    \/ \E feed \in TradeFeeds : TradesFetch(feed)
    \/ TradesInsert
    \/ TradesFail
    \/ UpsertMarketsBatch(ClosingPage)

SpecTrades == InitTrades /\ [][NextTrades]_vars

\* ================================================================ sync runs
\* syncEvents, syncMarkets and syncAllTrades called at any time against a
\* catalog that does not change: the open markets m1, m2, m4 and the closed m3,
\* the events e1 (of m1), e2 (no nested markets), e3 (closed, of m3), e4 (of m2
\* and m4), each catalog a prefix of both lists.
SyncMarkets ==
    << RawMarket("m1", Json(<<"t1">>), "false", "true", "false", <<0>>),
       RawMarket("m2", Json(<<"t2">>), "false", "true", "false", <<>>),
       RawMarket("m3", Json(<<"t3">>), "true", "false", "false", <<>>),
       RawMarket("m4", Json(<<"t5">>), "false", "true", "false", <<>>) >>

SyncEvents ==
    << GammaEvent("e1", <<"false", "true", "false">>, <<0>>, <<"m1">>),
       GammaEvent("e2", <<"false", "true", "false">>, <<>>, <<>>),
       GammaEvent("e3", <<"true", "false", "false">>, <<>>, <<"m3">>),
       GammaEvent("e4", <<"false", "true", "false">>, <<>>, <<"m2", "m4">>) >>

SyncCatalogs ==
    { [ events |-> SubSeq(SyncEvents, 1, n), markets |-> SubSeq(SyncMarkets, 1, n) ] :
        n \in 0..Len(SyncMarkets) }

\* The state before the first run, over a catalog of the given ones.
InitSyncOn(catalogs) ==
    /\ markets = <<>>
    /\ events = <<>>
    /\ eventMarketPairs = {}
    /\ audit = AuditIdle
    /\ priceHistory = EmptyBag
    /\ tokenToMarket = <<>>
    /\ priceBuffer = <<>>
    /\ isFlushingPrices = FALSE
    /\ flush = FlushIdle
    /\ flushLog = FlushLogInit
    /\ backfill = BackfillIdle
    /\ received = 0
    /\ subscribedTokens = <<>>
    /\ now = 0
    /\ TradesAtRest
    /\ syncState = SyncStateEmpty
    /\ isSyncing = [ e \in {"events", "markets"} |-> FALSE ]
    /\ syncRun = [ e \in {"events", "markets"} |-> SyncRunIdle ]
    /\ marketsSynced = 0
    /\ catalog \in catalogs
    /\ cleanup = CleanupIdle
    /\ config = [ enablePriceHistory |-> TRUE, enableTradesSync |-> TRUE ]
    /\ HostAtRest
    /\ WsAtRest
    /\ lastOp = Op("start", "ok", <<>>)

InitSync == InitSyncOn(SyncCatalogs)

\* The steps of the runs in flight.
SyncSteps ==
    \/ \E e \in {"events", "markets"} : SyncWriteSyncing(e)
    \/ \E e \in {"events", "markets"} : SyncFetchPage(e)
    \/ SyncLink
    \/ \E e \in {"events", "markets"} : SyncAudit(e)
    \/ \E e \in {"events", "markets"} : SyncWriteIdle(e)
    \/ \E e \in {"events", "markets"} : SyncInvalidate(e)
    \/ \E e \in {"events", "markets"} : SyncFinish(e)
    \/ \E e \in {"events", "markets"} : SyncFail(e)

NextSync ==
    \/ \E e \in {"events", "markets"}, includeClosed \in BOOLEAN : SyncCall(e, includeClosed)
    \/ SyncSteps

SpecSync == InitSync /\ [][NextSync]_vars

\* ============================================================== sync locks
\* The periodic calls of the three syncs side by side, over the catalog of one
\* event and one market, the trades feed answering with one trade of that
\* market's token.
LocksCatalog == [ events |-> SubSeq(SyncEvents, 1, 1), markets |-> SubSeq(SyncMarkets, 1, 1) ]

LocksFeed == << Trade("t1", "BUY", 40, 10, 0, <<"0xa">>, <<"0xw">>) >>

InitLocks == InitSyncOn({LocksCatalog})

NextLocks ==
    \/ \E e \in {"events", "markets"} : SyncCall(e, FALSE)
    \/ SyncSteps
    \/ TradesBegin
    \/ TradesDropped
    \/ TradesReadMarkets
    \/ TradesFetch(LocksFeed)
    \/ TradesInsert
    \/ TradesFail

SpecLocks == InitLocks /\ [][NextLocks]_vars

\* ================================================ initial sync interrupted
\* runInitialSync called at start-up, again by resync() and after a redeploy,
\* over a catalog of one open and three closed markets (two pages of closed
\* ones) and one open and one closed event, none with an end date; any awaited
\* step of a run may throw, and the process may stop at any moment.
InitialCatalog ==
    [ markets |-> << RawMarket("m1", Json(<<"t1">>), "false", "true", "false", <<>>),
                     RawMarket("m3", Json(<<"t3">>), "true", "false", "false", <<>>),
                     RawMarket("m5", Json(<<"t5">>), "true", "false", "false", <<>>),
                     RawMarket("m6", Json(<<"t6">>), "true", "false", "false", <<>>) >>,
      events |-> << GammaEvent("e1", <<"false", "true", "false">>, <<>>, <<"m1">>),
                    GammaEvent("e3", <<"true", "false", "false">>, <<>>, <<"m3">>) >> ]

InitInitial == InitSyncOn({InitialCatalog})

NextInitial ==
    \/ InitialSyncEvents
    \/ InitialSyncMarkets
    \/ InitialSyncLinks
    \/ ProcessRestarts
    \/ SyncSteps

SpecInitial == InitInitial /\ [][NextInitial]_vars

\* ========================================================= repeated syncs
\* runInitialSync run again and again over one catalog while the clock moves
\* past the end dates, the expiration audit runs and the feed prices market m1:
\* m1 ends at 0 and belongs to event e1 (no end date); m2 belongs to e2, which
\* ends at 0; m3 and its event e3 are reported closed, yet active, with end
\* date 0.
AuditCatalog ==
    [ markets |-> << RawMarket("m1", Json(<<"t1", "t2">>), "false", "true", "false", <<0>>),
                     RawMarket("m2", Json(<<"t3">>), "false", "true", "false", <<>>),
                     RawMarket("m3", Json(<<"t5">>), "true", "true", "false", <<0>>) >>,
      events |-> << GammaEvent("e1", <<"false", "true", "false">>, <<>>, <<"m1">>),
                    GammaEvent("e2", <<"false", "true", "false">>, <<0>>, <<"m2">>),
                    GammaEvent("e3", <<"true", "true", "false">>, <<0>>, <<"m3">>) >> ]

InitAudit == InitSyncOn({AuditCatalog})

NextAudit ==
    \/ Tick
    \/ RunInitialSync
    \/ \E done \in 0..3 : RunExpirationAudit(done)
    \/ LoadActiveTokens
    \/ \E changes \in LifecycleFeed : HandleMessage(changes)
    \/ FlushBegin
    \/ FlushRead
    \/ FlushInsert
    \/ FlushUpdate

SpecAudit == InitAudit /\ [][NextAudit]_vars

\* ============================================================= CLOB audit
\* The CLOB audit, with the expiration audit and runInitialSync beside it, over a
\* catalog of two events: e1 with the open markets m1, m2, m3 and the market m4
\* that is reported closed; e2 with the open market m5.
ClobCatalog ==
    [ markets |-> << RawMarket("m1", Json(<<"t1">>), "false", "true", "false", <<>>),
                     RawMarket("m2", Json(<<"t2">>), "false", "true", "false", <<>>),
                     RawMarket("m3", Json(<<"t3">>), "false", "true", "false", <<>>),
                     RawMarket("m4", Json(<<"t5">>), "true", "false", "false", <<>>),
                     RawMarket("m5", Json(<<"t6">>), "false", "true", "false", <<>>) >>,
      events |-> << GammaEvent("e1", <<"false", "true", "false">>, <<>>,
                               <<"m1", "m2", "m3", "m4">>),
                    GammaEvent("e2", <<"false", "true", "false">>, <<>>, <<"m5">>) >> ]

InitClob == InitSyncOn({ClobCatalog})

NextClob ==
    \/ RunInitialSync
    \/ RunExpirationAudit(3)
    \/ AuditPass1
    \/ AuditPass1b
    \/ AuditPass2
    \/ AuditCloseMarkets
    \/ AuditCloseEvents
    \/ AuditFail

SpecClob == InitClob /\ [][NextClob]_vars

\* ============================================================ page upserts
\* The batch upserts of catalog pages statement by statement, with the text
\* columns and search vectors of the rows, the search of the API beside them,
\* on a database with or without the triggers of migration 0001.
MarketTexts ==
    { [question |-> <<"Rain">>, description |-> <<>>, category |-> <<>>],
      [question |-> <<"the", "rains">>, description |-> <<"Weather">>, category |-> <<>>],
      [question |-> <<"snow">>, description |-> <<>>, category |-> <<"Weather">>] }

EventTexts ==
    { [title |-> <<"Rain">>, description |-> <<>>],
      [title |-> <<"snow">>, description |-> <<"the", "Weather">>] }

SearchTerms == { <<"rain">>, <<"snow", "Weather">> }

InitPage ==
    /\ markets = <<>>
    /\ events = <<>>
    /\ eventMarketPairs = {}
    /\ audit = AuditIdle
    /\ priceHistory = EmptyBag
    /\ tokenToMarket = <<>>
    /\ priceBuffer = <<>>
    /\ isFlushingPrices = FALSE
    /\ flush = FlushIdle
    /\ flushLog = FlushLogInit
    /\ backfill = BackfillIdle
    /\ received = 0
    /\ subscribedTokens = <<>>
    /\ now = 0
    /\ TradesAtRest
    /\ TimersAtRest
    /\ search \in { SearchIdle(triggers) : triggers \in BOOLEAN }
    /\ syncState = SyncStateEmpty
    /\ isSyncing = [ e \in {"events", "markets"} |-> FALSE ]
    /\ syncRun = [ e \in {"events", "markets"} |-> SyncRunIdle ]
    /\ marketsSynced = 0
    /\ catalog = [ events |-> <<>>, markets |-> <<>> ]
    /\ cleanup = CleanupIdle
    /\ config = [ enablePriceHistory |-> TRUE, enableTradesSync |-> TRUE ]
    /\ WsAtRest
    /\ lastOp = Op("start", "ok", <<>>)

NextPage ==
    \/ \E page \in LifecycleMarketPages : \E texts \in [DOMAIN page -> MarketTexts] :
          UpsertBatchInsert("markets", page, texts)
    \/ \E page \in LifecycleEventPages : \E texts \in [DOMAIN page -> EventTexts] :
          UpsertBatchInsert("events", page, texts)
    \/ \E e \in {"events", "markets"} : UpsertBatchVectors(e)
    \/ \E e \in {"events", "markets"} : UpsertBatchFail(e)
    \/ \E term \in SearchTerms : SearchEvents(term)

SpecPage == InitPage /\ [][NextPage]_vars

\* ======================================================= flush and upsert
\* The flush of a price for t1 (market m1, tokens t1 and t2) while markets syncs
\* store pages that report other prices for m1, with two outcomes or with a
\* third outcome added.
RepricedPages ==
    { [ id \in {"m1"} |->
          [ RawMarket(id, Json(<<"t1", "t2">>), "false", "true", "false", <<>>)
              EXCEPT !.outcomePrices = Json(<<30, 70>>) ] ],
      [ id \in {"m1"} |->
          [ RawMarket(id, Json(<<"t1", "t2", "t5">>), "false", "true", "false", <<>>)
              EXCEPT !.outcomes = Json(<<"A", "B", "C">>),
                     !.outcomePrices = Json(<<30, 30, 40>>) ] ] }

NextReprice ==
    \/ \E changes \in LifecycleFeed : HandleMessage(changes)
    \/ \E page \in RepricedPages : UpsertMarketsBatch(page)
    \/ FlushBegin
    \/ FlushRead
    \/ FlushInsert
    \/ FlushUpdate

SpecReprice == InitFlush /\ [][NextReprice]_vars

\* ================================================================ backfill
\* backfillMarketHistory called, again and again, for markets with no token, one
\* token, two tokens and three tokens, and for an id that is in no row.
BackfillMarketPage ==
    [ id \in {"m0", "m1", "m2", "m3"} |->
        RawMarket(id,
                  CASE id = "m0" -> Json(<<>>)
                    [] id = "m1" -> Json(<<"t1", "t2">>)
                    [] id = "m2" -> Json(<<"t3">>)
                    [] id = "m3" -> Json(<<"t4", "t5", "t6">>),
                  IF id = "m1" THEN "false" ELSE "true", "true", "false", <<>>) ]

InitBackfill == InitRealtime(BackfillMarketPage)

NextBackfill ==
    \/ \E marketId \in DOMAIN markets \cup {"m9"} : BackfillRead(marketId)
    \/ \E history \in Histories : BackfillFetch(history)
    \/ BackfillInsertBatch
    \/ BackfillFail

SpecBackfill == InitBackfill /\ [][NextBackfill]_vars

\* ============================================================ price buffer
\* The feed against a catalog that changes under it: market m1 expires and the
\* token map is reloaded while prices for m1's tokens keep arriving. The two
\* frames carry two prices for one token, a price for a token of another market,
\* a token that is not tracked and a price that does not parse.
BufferFeed ==
    { << [asset_id |-> "t1", price |-> <<40>>], [asset_id |-> "t3", price |-> <<60>>],
         [asset_id |-> "t1", price |-> <<45>>] >>,
      << [asset_id |-> "t9", price |-> <<40>>], [asset_id |-> "t2", price |-> <<>>],
         [asset_id |-> "t1", price |-> <<42>>] >> }

NextBuffer ==
    \/ Tick
    \/ RunInitialSync
    \/ RunExpirationAudit(3)
    \/ LoadActiveTokens
    \/ \E changes \in BufferFeed : HandleMessage(changes)
    \/ FlushBegin
    \/ FlushRead
    \/ FlushInsert
    \/ FlushUpdate

SpecBuffer == InitAudit /\ [][NextBuffer]_vars

\* ======================================================= serialized flushes
\* The flush timer firing at any moment, stop() and the feed, with every call
\* of flushPrices a step: those that return at a guard as well.
NextSerial ==
    \/ StartFlushInterval
    \/ \E changes \in FeedMessages : HandleMessage(changes)
    \/ FlushTimerFires
    \/ FlushTimerSkips
    \/ FlushRead
    \/ FlushInsert
    \/ FlushUpdate
    \/ FlushFail
    \/ Stop
    \/ StopResume

SpecSerial == InitFlush /\ [][NextSerial]_vars

\* ========================================================= retention sweep
\* runCleanup at instant 2 over tables that hold samples and trades of instants
\* 0, 1 and 2, under each setting of the two flags.
CleanupSamples ==
    { InsertSamples(EmptyBag,
                    ClobBatch("m1", <<"t1", "t2">>, SubSeq(points, 1, n)) \o ws) :
        n \in 0..3,
        points \in { << [t |-> 0, p |-> 40], [t |-> 1, p |-> 45], [t |-> 2, p |-> 50] >> },
        ws \in { <<>>, << WebsocketSample([marketId |-> "m1", tokenId |-> "t1",
                                          timestamp |-> 0, price |-> 41]) >> } }

CleanupTrades ==
    { InsertTrades(EmptyBag, [i \in 1..n |-> TradeRow(stored[i], "m1")]) :
        n \in 0..4,
        stored \in { << Trade("t1", "BUY", 40, 10, 0, <<"0xa">>, <<"0xw">>),
                        Trade("t1", "BUY", 40, 20, 0, <<"0xa">>, <<"0xw">>),
                        Trade("t2", "SELL", 60, 5, 0, <<>>, <<>>),
                        Trade("t1", "BUY", 45, 10, 1, <<"0xb">>, <<"0xw">>) >> } }

InitCleanup ==
    /\ markets = UpsertedMarkets(<<>>, [id \in DOMAIN SamplesMarketPage |->
                                          transformMarket(SamplesMarketPage[id])])
    /\ events = <<>>
    /\ eventMarketPairs = {}
    /\ audit = AuditIdle
    /\ priceHistory \in CleanupSamples
    /\ tokenToMarket = <<>>
    /\ priceBuffer = <<>>
    /\ isFlushingPrices = FALSE
    /\ flush = FlushIdle
    /\ flushLog = FlushLogInit
    /\ backfill = BackfillIdle
    /\ received = 0
    /\ subscribedTokens = <<>>
    /\ now = 2
    /\ trades \in CleanupTrades
    /\ isSyncingTrades = FALSE
    /\ tradesSync = TradesSyncIdle
    /\ syncState = SyncStateEmpty
    /\ isSyncing = [ e \in {"events", "markets"} |-> FALSE ]
    /\ syncRun = [ e \in {"events", "markets"} |-> SyncRunIdle ]
    /\ marketsSynced = 0
    /\ catalog = [ events |-> <<>>, markets |-> <<>> ]
    /\ cleanup = CleanupIdle
    /\ config \in [ enablePriceHistory : BOOLEAN, enableTradesSync : BOOLEAN ]
    /\ HostAtRest
    /\ WsAtRest
    /\ lastOp = Op("start", "ok", <<>>)

NextCleanup ==
    \/ CleanupStart
    \/ CleanupChunk
    \/ CleanupFail

SpecCleanup == InitCleanup /\ [][NextCleanup]_vars

\* ====================================================== WebSocket clients
\* The clients of a started manager over a constant token universe, their
\* sockets opening, failing and closing, and the timers firing in any order.
WsMarketPage ==
    [ id \in {"m1", "m2"} |->
        RawMarket(id, IF id = "m1" THEN Json(<<"t1", "t2">>) ELSE Json(<<"t3", "t5">>),
                  "false", "true", "false", <<>>) ]

InitWs ==
    /\ markets = UpsertedMarkets(<<>>, [id \in DOMAIN WsMarketPage |->
                                          transformMarket(WsMarketPage[id])])
    /\ events = <<>>
    /\ eventMarketPairs = {}
    /\ audit = AuditIdle
    /\ priceHistory = EmptyBag
    /\ tokenToMarket = <<>>
    /\ subscribedTokens = <<>>
    /\ priceBuffer = <<>>
    /\ isFlushingPrices = FALSE
    /\ flush = FlushIdle
    /\ flushLog = FlushLogInit
    /\ backfill = BackfillIdle
    /\ received = 0
    /\ now = 0
    /\ TradesAtRest
    /\ RunsAtRest
    /\ WsAtRest
    /\ lastOp = Op("new", "ok", <<>>)

NextWs ==
    \/ Start
    \/ \E s \in DOMAIN sockets : SocketOpens(s)
    \/ \E s \in DOMAIN sockets : \E k \in 1..Len(sockets[s].chains) : SendNext(s, k)
    \/ \E s \in DOMAIN sockets : SocketDrops(s)
    \/ \E s \in DOMAIN sockets : SocketErrors(s)
    \/ \E s \in DOMAIN sockets : SocketCloses(s)
    \/ \E c \in DOMAIN clients : ReconnectTimerFires(c)
    \/ Resubscribe

SpecWs == InitWs /\ [][NextWs]_vars

\* ================================================ resubscribe after refresh
\* Markets m1 (token t1) and m2 (tokens t2, t3) are live; markets syncs store
\* pages that add m3 (token t5) and report m1 closed, and resubscribe runs at
\* any point between the socket events.
ResubMarketPage ==
    [ id \in {"m1", "m2"} |->
        RawMarket(id, IF id = "m1" THEN Json(<<"t1">>) ELSE Json(<<"t2", "t3">>),
                  "false", "true", "false", <<>>) ]

RefreshPages ==
    { [ id \in {"m1", "m3"} |->
          IF id = "m1" THEN RawMarket(id, Json(<<"t1">>), "true", "false", "false", <<>>)
          ELSE RawMarket(id, Json(<<"t5">>), "false", "true", "false", <<>>) ] }

InitResub ==
    /\ markets = UpsertedMarkets(<<>>, [id \in DOMAIN ResubMarketPage |->
                                          transformMarket(ResubMarketPage[id])])
    /\ events = <<>>
    /\ eventMarketPairs = {}
    /\ audit = AuditIdle
    /\ priceHistory = EmptyBag
    /\ tokenToMarket = <<>>
    /\ subscribedTokens = <<>>
    /\ priceBuffer = <<>>
    /\ isFlushingPrices = FALSE
    /\ flush = FlushIdle
    /\ flushLog = FlushLogInit
    /\ backfill = BackfillIdle
    /\ received = 0
    /\ now = 0
    /\ TradesAtRest
    /\ RunsAtRest
    /\ WsAtRest
    /\ lastOp = Op("new", "ok", <<>>)

NextResub ==
    \/ Start
    \/ \E s \in DOMAIN sockets : SocketOpens(s)
    \/ \E s \in DOMAIN sockets : \E k \in 1..Len(sockets[s].chains) : SendNext(s, k)
    \/ \E s \in DOMAIN sockets : SocketDrops(s)
    \/ \E s \in DOMAIN sockets : SocketCloses(s)
    \/ \E c \in DOMAIN clients : ReconnectTimerFires(c)
    \/ \E page \in RefreshPages : UpsertMarketsBatch(page)
    \/ Resubscribe

SpecResub == InitResub /\ [][NextResub]_vars

\* ==================================================== tokens assigned late
\* Only market m1 (token t1, shard of client 0) is live when the clients start,
\* so the shard of client 1 is empty when its socket opens; a markets sync then
\* stores market m2 (token t2, shard of client 1) and resubscribe runs.
LateMarketPage ==
    [ id \in {"m1"} |-> RawMarket(id, Json(<<"t1">>), "false", "true", "false", <<>>) ]

LatePages ==
    { [ id \in {"m2"} |-> RawMarket(id, Json(<<"t2">>), "false", "true", "false", <<>>) ] }

InitLate ==
    /\ markets = UpsertedMarkets(<<>>, [id \in DOMAIN LateMarketPage |->
                                          transformMarket(LateMarketPage[id])])
    /\ events = <<>>
    /\ eventMarketPairs = {}
    /\ audit = AuditIdle
    /\ priceHistory = EmptyBag
    /\ tokenToMarket = <<>>
    /\ subscribedTokens = <<>>
    /\ priceBuffer = <<>>
    /\ isFlushingPrices = FALSE
    /\ flush = FlushIdle
    /\ flushLog = FlushLogInit
    /\ backfill = BackfillIdle
    /\ received = 0
    /\ now = 0
    /\ TradesAtRest
    /\ RunsAtRest
    /\ WsAtRest
    /\ lastOp = Op("new", "ok", <<>>)

NextLate ==
    \/ Start
    \/ \E s \in DOMAIN sockets : SocketOpens(s)
    \/ \E s \in DOMAIN sockets : \E k \in 1..Len(sockets[s].chains) : SendNext(s, k)
    \/ \E s \in DOMAIN sockets : SocketDrops(s)
    \/ \E s \in DOMAIN sockets : SocketCloses(s)
    \/ \E c \in DOMAIN clients : ReconnectTimerFires(c)
    \/ \E page \in LatePages : UpsertMarketsBatch(page)
    \/ Resubscribe

SpecLate == InitLate /\ [][NextLate]_vars

\* ============================================================ reconnection
\* The clients started over the markets of the resubscription specification;
\* their sockets open, fail while connecting, drop and close, the reconnect
\* timers fire, and stop() is called at any moment. A timer that was set fires
\* and a socket that went down delivers its 'close' event.
NextReconnect ==
    \/ Start
    \/ \E s \in DOMAIN sockets : SocketOpens(s)
    \/ \E s \in DOMAIN sockets : SocketDrops(s)
    \/ \E s \in DOMAIN sockets : SocketErrors(s)
    \/ \E s \in DOMAIN sockets : SocketCloses(s)
    \/ \E c \in DOMAIN clients : ReconnectTimerFires(c)
    \/ Stop

SpecReconnect ==
    /\ InitResub
    /\ [][NextReconnect]_vars
    /\ \A c \in 0..(wsConnections - 1) :
          WF_wsVars(c \in DOMAIN clients /\ ReconnectTimerFires(c))
    /\ \A s \in 1..MaxSockets : WF_wsVars(s \in DOMAIN sockets /\ SocketCloses(s))

\* ====================================================== realtime shutdown
\* The realtime manager of the flush specification, its flush timer started,
\* stopped at any moment: while the buffer is empty, while it holds updates,
\* while a flush of the timer is in flight.
NextStop ==
    \/ StartFlushInterval
    \/ \E changes \in FeedMessages : HandleMessage(changes)
    \/ FlushTimerFires
    \/ FlushRead
    \/ FlushInsert
    \/ FlushUpdate
    \/ FlushFail
    \/ Stop
    \/ StopResume

SpecStop == InitFlush /\ [][NextStop]_vars

\* ===================================================== sockets at shutdown
\* The clients started over the four tokens of the subscription specification;
\* sockets open, pace their frames, drop and close, reconnect timers fire,
\* the feed prices t1, and stop() is called at any moment: with a price in the
\* buffer it waits for the flush it starts before it closes the sockets.
\* start() is called once, before stop().
StartBeforeStop ==
    /\ realtime.stop = "idle"
    /\ Start

NextShutdown ==
    \/ StartBeforeStop
    \/ \E s \in DOMAIN sockets : SocketOpens(s)
    \/ \E s \in DOMAIN sockets : \E k \in 1..Len(sockets[s].chains) : SendNext(s, k)
    \/ \E s \in DOMAIN sockets : SocketDrops(s)
    \/ \E s \in DOMAIN sockets : SocketCloses(s)
    \/ \E c \in DOMAIN clients : ReconnectTimerFires(c)
    \/ \E changes \in LifecycleFeed : HandleMessage(changes)
    \/ FlushRead
    \/ FlushInsert
    \/ FlushUpdate
    \/ Stop
    \/ StopResume

SpecShutdown == InitWs /\ [][NextShutdown]_vars

\* ======================================================= start and stop
\* The orchestrator started once and stopped at any moment from then on, over
\* the catalog of one event and one market, with the trades sync enabled or
\* not; the timers fire whenever they are armed, and what they start is
\* followed up to its first await.
InitOrch ==
    /\ markets = <<>>
    /\ events = <<>>
    /\ eventMarketPairs = {}
    /\ audit = AuditIdle
    /\ priceHistory = EmptyBag
    /\ tokenToMarket = <<>>
    /\ priceBuffer = <<>>
    /\ isFlushingPrices = FALSE
    /\ flush = FlushIdle
    /\ flushLog = FlushLogInit
    /\ backfill = BackfillIdle
    /\ received = 0
    /\ subscribedTokens = <<>>
    /\ now = 0
    /\ TradesAtRest
    /\ syncState = SyncStateEmpty
    /\ isSyncing = [ e \in {"events", "markets"} |-> FALSE ]
    /\ syncRun = [ e \in {"events", "markets"} |-> SyncRunIdle ]
    /\ marketsSynced = 0
    /\ catalog = LocksCatalog
    /\ cleanup = CleanupIdle
    /\ config \in [ enablePriceHistory : {TRUE}, enableTradesSync : BOOLEAN ]
    /\ HostAtRest
    /\ WsAtRest
    /\ lastOp = Op("new", "ok", <<>>)

NextOrch ==
    \/ OrchStart
    \/ OrchInitialSync
    \/ OrchRealtimeStart
    \/ OrchStarted
    \/ OrchStop
    \/ IntervalFires("markets")
    \/ IntervalFires("events")
    \/ IntervalFires("trades")
    \/ IntervalFires("audit")
    \/ IntervalFires("clobAudit")
    \/ CleanupIntervalFires
    \/ EventsStaggerFires
    \/ ClobAuditTimeoutFires
    \/ CleanupTimeoutFires
    \/ \E s \in DOMAIN sockets : SocketOpens(s)
    \/ \E s \in DOMAIN sockets : SocketErrors(s)
    \/ \E s \in DOMAIN sockets : SocketCloses(s)

SpecOrch == InitOrch /\ [][NextOrch]_vars

\* ================================================================== claims
\* C1: no step of the catalog upserts, linking, the CLOB audit, the expiration
\* audits or the flush removes a market or event row or takes its closed or
\* archived flag from true back to false.
C1_ClosedArchivedMonotonic ==
    [][ /\ \A m \in DOMAIN markets :
              /\ m \in DOMAIN markets'
              /\ markets[m].closed => markets'[m].closed
              /\ markets[m].archived => markets'[m].archived
        /\ \A e \in DOMAIN events :
              /\ e \in DOMAIN events'
              /\ events[e].closed => events'[e].closed
              /\ events[e].archived => events'[e].archived ]_vars

\* A catalog page that reports market m1 open and active has just been merged
\* into its row, and the row is still closed and inactive.
C1_Witness ==
    /\ lastOp.op = "upsertMarketsBatch"
    /\ lastOp.result = "merged"
    /\ lastOp.arg["m1"].closed = "false"
    /\ lastOp.arg["m1"].active = "true"
    /\ markets["m1"].closed
    /\ ~markets["m1"].active

\* C2: right after a catalog upsert of markets (of events), every row of the
\* page, inserted or merged, that is stored closed or archived is stored
\* inactive.
C2_InactiveWhenClosed ==
    /\ lastOp.op = "upsertMarketsBatch" =>
          \A m \in DOMAIN lastOp.arg :
              (markets[m].closed \/ markets[m].archived) => ~markets[m].active
    /\ lastOp.op = "upsertEventsBatch" =>
          \A e \in DOMAIN lastOp.arg :
              (events[e].closed \/ events[e].archived) => ~events[e].active

\* C3: every market row has as many outcomes as outcome token ids and as
\* outcome prices.
C3_EqualLengths ==
    \A m \in DOMAIN markets :
        /\ Len(markets[m].outcomes) = Len(markets[m].outcomeTokenIds)
        /\ Len(markets[m].outcomes) = Len(markets[m].outcomePrices)

\* The tokens of the frames sent on a socket.
TokensSent(socket) ==
    UNION { Range(socket.sent[i].assets_ids) : i \in 1..Len(socket.sent) }

\* Client c is connected and the paced sending on its socket has finished.
Settled(c) ==
    /\ clients[c].isConnected
    /\ clients[c].ws # 0
    /\ sockets[clients[c].ws].readyState = "OPEN"
    /\ sockets[clients[c].ws].chains = <<>>

\* C10: whenever a client is connected and the paced sending on its socket has
\* finished, after however many reconnects, the tokens it holds as subscribed
\* and the tokens of the frames sent on its current socket are exactly its
\* shard, the first frame being the initial one; and when this holds of every
\* client, the union of the subscriptions is the whole token universe.
C10_SubscribedIsShard ==
    /\ \A c \in DOMAIN clients :
          Settled(c) =>
             /\ clients[c].subscribedTokens = Range(clients[c].assignedTokens)
             /\ TokensSent(sockets[clients[c].ws]) = Range(clients[c].assignedTokens)
             /\ \A i \in 1..Len(sockets[clients[c].ws].sent) :
                   (sockets[clients[c].ws].sent[i].operation = "") <=> (i = 1)
    /\ (clients # <<>> /\ \A c \in DOMAIN clients : Settled(c)) =>
          UNION { TokensSent(sockets[clients[c].ws]) : c \in DOMAIN clients }
             = Range(subscribedTokens)

\* Every client is settled on a socket other than its first one, every socket
\* the bound allows has been created, and one of the closed sockets went down
\* in the middle of its paced sending.
C10_Witness ==
    /\ clients # <<>>
    /\ \A c \in DOMAIN clients : Settled(c)
    /\ Len(sockets) = MaxSockets
    /\ \E s \in DOMAIN sockets :
          /\ sockets[s].readyState = "CLOSED"
          /\ sockets[s].sent # <<>>
          /\ TokensSent(sockets[s]) # Range(clients[sockets[s].client].assignedTokens)

FlushSucceeded == lastOp.op = "flushPrices" /\ lastOp.result = "ok"

FlushFailed == lastOp.op = "flushPrices" /\ lastOp.result = "error"

SamplesOfToken(table, tokenId) ==
    { x \in BagToSet(table) : x.source = "websocket" /\ x.tokenId = tokenId }

\* C4: the store never holds two price samples with the same (market_id,
\* token_id, instant, source), whatever the interleaving of backfill runs,
\* re-runs and flushes; and no step, an insert that meets an existing key
\* included, changes or removes a row that is already stored.
C4_UniqueSamples ==
    /\ [](\A x \in BagToSet(priceHistory) :
            /\ CopiesIn(x, priceHistory) = 1
            /\ \A y \in BagToSet(priceHistory) : SampleKey(x) = SampleKey(y) => x = y)
    /\ [][\A x \in BagToSet(priceHistory) : CopiesIn(x, priceHistory') = 1]_vars

\* A flush retried after a failure has just inserted a sample whose key was
\* already stored, in a store that also holds backfilled samples.
C4_Witness ==
    /\ lastOp.op = "insert price_history"
    /\ lastOp.result = "conflict"
    /\ lastOp.arg.source = "websocket"
    /\ flushLog.failed
    /\ \E x \in BagToSet(priceHistory) : x.source = "clob"

\* C5: no two stored trades share an id, every stored row is the row of a trade
\* of the feed under the id computed from that trade's content, no step changes
\* or removes a stored row, and when a run of the trades sync has completed,
\* each trade of its feed whose token is tracked has exactly one row, carrying
\* that trade's content.
C5_TradesIdempotent ==
    /\ [](\A x \in BagToSet(trades) :
            /\ CopiesIn(x, trades) = 1
            /\ \A y \in BagToSet(trades) : x.id = y.id => x = y
            /\ \E t \in FeedTrades : x = TradeRow(t, x.marketId))
    /\ []((lastOp.op = "syncAllTrades" /\ lastOp.result = "ok") =>
            \A i \in 1..Len(lastOp.arg.rows) :
                \E x \in BagToSet(trades) :
                    /\ x.id = lastOp.arg.rows[i].id
                    /\ [x EXCEPT !.marketId = lastOp.arg.rows[i].marketId]
                          = lastOp.arg.rows[i])
    /\ [][\A x \in BagToSet(trades) : CopiesIn(x, trades') = 1]_vars

\* A run over a feed whose tracked trades were all stored by earlier runs has
\* just completed: it built rows and inserted none.
C5_Witness ==
    /\ lastOp.op = "syncAllTrades"
    /\ lastOp.result = "ok"
    /\ Len(lastOp.arg.rows) = 2
    /\ lastOp.arg.inserted = 0
    /\ BagCardinality(trades) >= 2

\* C6: when a flush completes successfully, every buffer entry that is not one
\* of the entries it snapshotted (an update that arrived while it was in flight,
\* for a new token or for a snapshotted token) is still in the buffer.
C6_MidFlightKept ==
    [][ (FlushSucceeded' /\ flush.pc # "idle") =>
          \A i \in 1..Len(priceBuffer) :
              priceBuffer[i] \notin Range(flush.snapshot)
                  => priceBuffer[i] \in Range(priceBuffer') ]_vars

\* C7: when a statement of a flush fails, the buffer is left exactly as it was
\* (updates that arrived meanwhile included), every snapshotted token is still
\* buffered, with the snapshotted entry unless a newer one arrived in flight,
\* and isFlushingPrices is false again.
C7_FailedFlushKeepsBuffer ==
    [][ (FlushFailed' /\ flush.pc # "idle") =>
          /\ priceBuffer' = priceBuffer
          /\ \A i \in 1..Len(flush.snapshot) :
                \E j \in 1..Len(priceBuffer') :
                    /\ priceBuffer'[j].tokenId = flush.snapshot[i].tokenId
                    /\ priceBuffer'[j] = flush.snapshot[i] \/ flushLog.midFlight
          /\ ~isFlushingPrices' ]_vars

\* A flush has just failed with entries of two markets buffered, one of which
\* arrived while it was in flight.
C7_Witness ==
    /\ FlushFailed
    /\ flushLog.midFlight
    /\ ~isFlushingPrices
    /\ Len(priceBuffer) >= 3

\* C8: when a flush succeeds after an earlier flush failed and newer updates
\* arrived since (and none while it was in flight), then for every token it
\* flushed the store holds exactly one websocket sample, carrying the buffered
\* price, and the market's outcome_prices holds that price at the token's place.
C8_RetryStoresLatestOnce ==
    [][ ( /\ FlushSucceeded' /\ flush.pc # "idle"
          /\ flushLog.failed /\ flushLog.newer
          /\ ~flushLog.succeeded /\ ~flushLog.midFlight ) =>
          \A i \in 1..Len(flush.snapshot) :
              LET e == flush.snapshot[i]
                  row == markets'[e.marketId]
              IN  /\ SamplesOfToken(priceHistory', e.tokenId) = {WebsocketSample(e)}
                  /\ row.outcomePrices[IndexOf(row.outcomeTokenIds, e.tokenId)] = e.price ]_vars

\* C9: a buffered update leaves the buffer only by being overwritten by a newer
\* message or with its sample stored (so that none is dropped unwritten).
C9_BufferedIsStored ==
    [][ \A i \in 1..Len(priceBuffer) :
            priceBuffer[i] \notin Range(priceBuffer')
                => \/ lastOp'.op = "handleMessage"
                   \/ WebsocketSample(priceBuffer[i]) \in BagToSet(priceHistory') ]_vars

\* C11: a resubscribe sends nothing at once and no initial-shape frame: on the
\* open socket of every connected client it queues subscribe frames for exactly
\* the tokens of the client's new shard that the client has not marked as
\* subscribed (no frames when there are none) and marks those tokens; it leaves
\* the sockets and the marks of clients that are not connected alone. Every
\* frame a queue sends is a subscribe frame, no frame is an unsubscribe, an
\* initial-shape frame is only ever the first frame of a socket, and once the
\* queues of a connected client have run the tokens marked as subscribed are
\* the tokens of the frames sent on its socket.
C11_ResubscribeAddsOnly ==
    /\ [](\A s \in DOMAIN sockets : \A i \in 1..Len(sockets[s].sent) :
            /\ sockets[s].sent[i].operation \in {"", "subscribe"}
            /\ sockets[s].sent[i].operation = "" => i = 1)
    /\ [](\A c \in DOMAIN clients :
            Settled(c) => clients[c].subscribedTokens = TokensSent(sockets[clients[c].ws]))
    /\ [][ lastOp'.op = "sendNext" =>
            \A s \in DOMAIN sockets :
                \A i \in (Len(sockets[s].sent) + 1)..Len(sockets'[s].sent) :
                    sockets'[s].sent[i].operation = "subscribe" ]_vars
    /\ [][ lastOp'.op = "resubscribe" =>
            /\ DOMAIN sockets' = DOMAIN sockets
            /\ \A s \in DOMAIN sockets :
                  /\ sockets'[s].sent = sockets[s].sent
                  /\ (\A c \in DOMAIN clients : clients[c].ws # s \/ ~clients[c].isConnected)
                        => sockets'[s] = sockets[s]
            /\ \A c \in DOMAIN clients' :
                  LET before == IF clients = <<>> THEN NewClient ELSE clients[c]
                      toAdd == Range(clients'[c].assignedTokens) \ before.subscribedTokens
                      s == before.ws
                  IN  IF before.isConnected /\ s # 0 /\ sockets[s].readyState = "OPEN"
                      THEN /\ clients'[c].subscribedTokens = before.subscribedTokens \cup toAdd
                           /\ IF toAdd = {} THEN sockets'[s] = sockets[s]
                              ELSE \E chain \in Range(sockets'[s].chains) :
                                     /\ sockets'[s].chains = Append(sockets[s].chains, chain)
                                     /\ chain.i = 0
                                     /\ UNION { Range(chain.batches[j]) :
                                                  j \in 1..Len(chain.batches) } = toAdd
                                     /\ \A j, k \in 1..Len(chain.batches) :
                                           j # k => Range(chain.batches[j])
                                                      \cap Range(chain.batches[k]) = {}
                      ELSE /\ s # 0 => sockets'[s] = sockets[s]
                           /\ ~before.isConnected =>
                                 clients'[c].subscribedTokens = before.subscribedTokens ]_vars

\* After a refresh that added t5 and closed the market of t1, a resubscribe ran
\* and its queue has just run out, the subscribe frame for t5 sent on the open socket of
\* the client that still holds t1 from its initial frame, while another client
\* is not connected.
C11_Witness ==
    /\ lastOp.op = "sendNext"
    /\ lastOp.result = "done"
    /\ \E c \in DOMAIN clients :
          LET sent == sockets[clients[c].ws].sent
          IN  /\ Settled(c)
              /\ "t1" \notin Range(clients[c].assignedTokens)
              /\ Len(sent) = 2
              /\ sent[1].operation = "" /\ "t1" \in Range(sent[1].assets_ids)
              /\ sent[2] = Frame(FALSE, <<"t5">>)
    /\ \E d \in DOMAIN clients : ~clients[d].isConnected

\* ---- sync locks
\* C12: for events, markets and trades at most one run is in flight: the flag
\* of an entity is set exactly while its run is in flight; a call is dropped
\* exactly when the flag of its own entity is set, whatever the other two
\* flags are; and a dropped call changes neither the tables nor sync_state nor
\* the run in flight.
C12_OneRunPerEntity ==
    /\ [](\A e \in {"events", "markets"} : isSyncing[e] <=> syncRun[e].pc # "idle")
    /\ [](isSyncingTrades <=> tradesSync.pc # "idle")
    /\ [][\A e \in SyncEntities :
            (/\ lastOp'.op = (IF e = "trades" THEN "syncAllTrades" ELSE SyncName(e))
             /\ lastOp'.result \in {"begin", "dropped"})
            => /\ lastOp'.result = "dropped"
                  <=> (IF e = "trades" THEN isSyncingTrades ELSE isSyncing[e])
               /\ lastOp'.result = "begin"
                  => (IF e = "trades" THEN isSyncingTrades' ELSE isSyncing'[e])]_vars
    /\ [][lastOp'.result = "dropped"
            => UNCHANGED <<markets, events, trades, priceHistory, syncState, eventMarketPairs,
                           isSyncing, isSyncingTrades, syncRun, tradesSync,
                           marketsSynced>>]_vars

\* The three runs in flight together, and a further call of syncMarkets dropped.
C12_Witness ==
    /\ lastOp = Op("syncMarkets", "dropped", <<>>)
    /\ syncRun["events"].pc = "fetch"
    /\ syncRun["markets"].pc = "audit"
    /\ tradesSync.pc = "insert"
    /\ isSyncing["events"] /\ isSyncing["markets"] /\ isSyncingTrades

\* ---- failed runs
\* C13: a run of events, markets or trades that fails at any step ends with
\* the entity's sync_state row at status 'error' with the error message, and
\* with the entity's flag released.
C13_FailureEndsInError ==
    [][\A e \in SyncEntities :
          (/\ lastOp'.op = (IF e = "trades" THEN "syncAllTrades" ELSE SyncName(e))
           /\ lastOp'.result = "error")
          => /\ syncState'[e].status = "error"
             /\ syncState'[e].errorMessage = "message"
             /\ ~(IF e = "trades" THEN isSyncingTrades' ELSE isSyncing'[e])]_vars

\* ---- the callback of syncMarkets
\* C14: onMarketsSynced is invoked once for each markets run that ends without
\* error and for no other: every such end invokes it once; an invocation comes
\* after the cache invalidation of a run whose pages are all stored and whose
\* sync_state row is 'idle'; a failed or dropped call invokes nothing, and so
\* does every step of an events run.
C14_CallbackOncePerSuccess ==
    /\ [](marketsSynced <= syncRun["markets"].runs - (IF isSyncing["markets"] THEN 1 ELSE 0))
    /\ [][lastOp' = Op("syncMarkets", "ok", <<>>) => marketsSynced' = marketsSynced + 1]_vars
    /\ [][marketsSynced' # marketsSynced
            => /\ marketsSynced' = marketsSynced + 1
               /\ lastOp' = Op("syncMarkets", "ok", <<>>)
               /\ syncRun["markets"].pc = "invalidated"
               /\ syncState["markets"] = [status |-> "idle", errorMessage |-> NULL]
               /\ syncState'["markets"] = syncState["markets"]
               /\ \A i \in 1..Len(catalog.markets) :
                     (catalog.markets[i].closed = "false" \/ syncRun["markets"].includeClosed)
                     => catalog.markets[i].id \in DOMAIN markets]_vars
    /\ [][(lastOp'.op = "syncMarkets" /\ lastOp'.result \in {"error", "dropped"})
            => marketsSynced' = marketsSynced]_vars

\* A failed markets run, then one over the whole catalog, closed market
\* included, that ended well and invoked the callback.
C14_Witness ==
    /\ lastOp = Op("syncMarkets", "ok", <<>>)
    /\ marketsSynced = 1
    /\ syncRun["markets"].runs = 2
    /\ syncState["events"].status = "error"
    /\ Len(catalog.markets) = 4
    /\ DOMAIN markets = {"m1", "m2", "m3", "m4"}

\* ---- catalog pagination
\* The ids a run was answered with, over all its pages of one filter.
FetchedIds(pages, closed) ==
    UNION { Range(pages[i].ids) : i \in { j \in 1..Len(pages) : pages[j].closed = closed } }

\* The pages of a run follow the rule of the loop: the first request asks for
\* the open items at offset 0; after a page of batch-size items the next
\* request has the same filter and the offset moved on by the page's length;
\* after a shorter page (an empty one included) no further request of that
\* filter is made, the only request that can follow being the first one for
\* the closed items of a run that includes them.
PagesInOrder(run) ==
    /\ run.pages # <<>> => run.pages[1].offset = 0 /\ ~run.pages[1].closed
    /\ \A i \in 1..(Len(run.pages) - 1) :
          LET p == run.pages[i]
              q == run.pages[i + 1]
          IN  IF Len(p.ids) = marketsBatchSize
              THEN q.closed = p.closed /\ q.offset = p.offset + Len(p.ids)
              ELSE ~p.closed /\ q.closed /\ q.offset = 0 /\ run.includeClosed

\* C19: pagination goes on after a page of exactly batch-size items, with the
\* offset advanced by the page's length, and stops after the first shorter
\* page; every item answered is answered once and is in the table once its
\* page is fetched; the loop ends within as many requests as the catalog has
\* items, two more at most, and once it has ended every item of the catalog
\* under the filters of the run has been upserted.
C19_Pagination ==
    \A e \in {"events", "markets"} :
       LET run == syncRun[e]
           table == IF e = "events" THEN events ELSE markets
           last == run.pages[Len(run.pages)]
           wanted(closed) == { catalog[e][i].id :
                                 i \in { j \in 1..Len(catalog[e]) :
                                           (catalog[e][j].closed = "true") = closed } }
       IN  /\ PagesInOrder(run)
           /\ Len(run.pages) <= Len(catalog[e]) + 2
           /\ \A i, j \in 1..Len(run.pages) :
                 i # j => Range(run.pages[i].ids) \cap Range(run.pages[j].ids) = {}
           /\ \A i \in 1..Len(run.pages) :
                 /\ Range(run.pages[i].ids) \subseteq DOMAIN table
                 /\ Len(run.pages[i].ids) <= marketsBatchSize
                 /\ Cardinality(Range(run.pages[i].ids)) = Len(run.pages[i].ids)
           /\ run.pc = "fetch" /\ run.pages # <<>>
                 => \/ Len(last.ids) = marketsBatchSize /\ last.closed = run.closed
                    \/ ~last.closed /\ run.closed /\ run.offset = 0
           /\ run.pc \in {"link", "audit", "idleWrite", "invalidate", "invalidated"}
                 => /\ Len(last.ids) < marketsBatchSize
                    /\ last.closed = run.includeClosed
                    /\ FetchedIds(run.pages, FALSE) = wanted(FALSE)
                    /\ run.includeClosed => FetchedIds(run.pages, TRUE) = wanted(TRUE)
                    /\ ~run.includeClosed => FetchedIds(run.pages, TRUE) = {}

\* A markets run over the catalog of four: a full page, the short page after it
\* and the short page of the closed markets; the loop has ended.
C19_Witness ==
    /\ lastOp = Op("syncMarkets", "page", 1)
    /\ syncRun["markets"].pc = "audit"
    /\ syncRun["markets"].pages =
          << [closed |-> FALSE, offset |-> 0, ids |-> <<"m1", "m2">>],
             [closed |-> FALSE, offset |-> 2, ids |-> <<"m4">>],
             [closed |-> TRUE, offset |-> 0, ids |-> <<"m3">>] >>
    /\ DOMAIN markets = {"m1", "m2", "m3", "m4"}

\* ---- event links
\* C20: a market's event_id is written only by applyEventMarketLinks, from a
\* pair collected from the nested markets of an event page: a market row is
\* inserted without event_id, no other step changes the event_id of a row, and
\* a page of events adds pairs for the nested markets it carries only, none for
\* an event without nested markets.
C20_EventIdOnlyByLinks ==
    /\ [][\A m \in DOMAIN markets' :
            IF m \in DOMAIN markets
            THEN markets'[m].eventId # markets[m].eventId
                 => /\ lastOp'.op = "applyEventMarketLinks"
                    /\ [marketId |-> m, eventId |-> markets'[m].eventId] \in eventMarketPairs
            ELSE lastOp'.op = "upsertMarketsBatch" /\ markets'[m].eventId = NULL]_vars
    /\ [][lastOp'.op = "upsertEventsBatch"
            => /\ markets' = markets
               /\ \A p \in eventMarketPairs' \ eventMarketPairs :
                     /\ p.eventId \in DOMAIN lastOp'.arg
                     /\ p.marketId \in Range(lastOp'.arg[p.eventId].markets)
               /\ \A e \in DOMAIN lastOp'.arg :
                     lastOp'.arg[e].markets = <<>>
                     => { p \in eventMarketPairs' : p.eventId = e }
                           = { p \in eventMarketPairs : p.eventId = e }]_vars
    /\ [][eventMarketPairs' # eventMarketPairs
            => lastOp'.op \in {"upsertEventsBatch", "syncEvents"}]_vars

\* Market m1, linked to event e1, merged again by the market upsert.
C20_Witness ==
    /\ lastOp.op = "upsertMarketsBatch"
    /\ lastOp.result = "merged"
    /\ "m1" \in DOMAIN markets
    /\ markets["m1"].eventId = "e1"

\* ---- repeated syncs and the expiration audit
\* Every item of the catalog has its row.
Populated ==
    /\ \A i \in 1..Len(catalog.markets) : catalog.markets[i].id \in DOMAIN markets
    /\ \A i \in 1..Len(catalog.events) : catalog.events[i].id \in DOMAIN events

\* C15: runInitialSync run again on a populated database, over the same
\* catalog and with no row newly past its end date, leaves every event row and
\* every market row as it was (the model keeps neither updated_at nor the
\* search vector).
C15_ResyncChangesNothing ==
    [][(/\ lastOp'.op = "runInitialSync"
        /\ Populated
        /\ ExpiredMarkets(markets, now) = {}
        /\ ExpiredEvents(events, now) = {})
       => markets' = markets /\ events' = events]_vars

\* C16: the expiration audit run twice in succession, nothing else written
\* in between and the clock standing still, leaves the events and the markets
\* as the first run left them: in every reachable state a complete run applied
\* to the outcome of a complete run changes nothing, and a run that follows a
\* complete run changes nothing.
C16_AuditIdempotent ==
    /\ [](LET once == Audited(markets, events, now, 3)
          IN  Audited(once.markets, once.events, now, 3) = once)
    /\ [][(/\ lastOp.op = "runExpirationAudit" /\ lastOp.result = "ok"
            /\ lastOp'.op = "runExpirationAudit")
           => markets' = markets /\ events' = events]_vars

\* A complete run that changed rows, and right after it a complete run that
\* changed none.
C16_Witness ==
    /\ lastOp.op = "runExpirationAudit"
    /\ lastOp.result = "ok"
    /\ lastOp.arg.again
    /\ ~lastOp.arg.changed
    /\ Populated
    /\ ~markets["m1"].active /\ ~events["e1"].active /\ ~events["e2"].active

\* C17: a run of the expiration audit, complete or cut short, inserts and
\* deletes no row and changes a row only if it was active and not closed, and
\* then only by clearing `active`: closed rows and inactive rows stay as they
\* are, and `closed` and `archived` are not written.
C17_AuditTouchesOpenRowsOnly ==
    [][lastOp'.op = "runExpirationAudit"
       => /\ DOMAIN markets' = DOMAIN markets
          /\ DOMAIN events' = DOMAIN events
          /\ \A m \in DOMAIN markets :
                \/ markets'[m] = markets[m]
                \/ /\ markets[m].active /\ ~markets[m].closed
                   /\ markets'[m] = [markets[m] EXCEPT !.active = FALSE]
          /\ \A e \in DOMAIN events :
                \/ events'[e] = events[e]
                \/ /\ events[e].active /\ ~events[e].closed
                   /\ events'[e] = [events[e] EXCEPT !.active = FALSE]]_vars

\* A run that cleared `active` on open rows past their end date, the closed
\* event e3 and the closed market m3, both active and past theirs, left alone.
C17_Witness ==
    /\ lastOp.op = "runExpirationAudit"
    /\ lastOp.result = "ok"
    /\ lastOp.arg.changed
    /\ Populated
    /\ ~events["e2"].active /\ ~markets["m1"].active
    /\ events["e3"].closed /\ events["e3"].active /\ IsPast(events["e3"].endDate, now)
    /\ markets["m3"].closed /\ markets["m3"].active /\ IsPast(markets["m3"].endDateIso, now)

\* ---- retention sweep
\* C18: when a sweep has completed without error, no price sample older than
\* its cutoff remains, nor, with the trades sync enabled, a trade older than
\* its own; the sweep deletes no row at or after the cutoff; every DELETE that
\* does not end its loop has removed rows, so the loop ends; and a sweep that
\* follows a completed one deletes nothing.
C18_SweepLeavesNoOldRows ==
    /\ []((lastOp.op = "runCleanup" /\ lastOp.result = "ok")
           => /\ OlderThan(priceHistory, now - priceHistoryRetentionDays) = {}
              /\ config.enableTradesSync
                    => OlderThan(trades, now - tradesRetentionDays) = {})
    /\ [][lastOp'.op = "runCleanup"
            => /\ \A r \in BagToSet(priceHistory) \ BagToSet(priceHistory') :
                     r.timestamp < now - priceHistoryRetentionDays
               /\ \A r \in BagToSet(trades) \ BagToSet(trades') :
                     r.timestamp < now - tradesRetentionDays
               /\ (lastOp'.result = "deleted" /\ cleanup'.pc = cleanup.pc)
                     => BagCardinality(priceHistory') + BagCardinality(trades')
                           < BagCardinality(priceHistory) + BagCardinality(trades)]_vars
    /\ [][(lastOp.op = "runCleanup" /\ lastOp.result = "ok" /\ lastOp'.op = "runCleanup")
            => priceHistory' = priceHistory /\ trades' = trades]_vars

\* ---- reconnection
\* The connection of client c is up or coming up.
Alive(c) ==
    /\ clients[c].ws # 0
    /\ sockets[clients[c].ws].readyState \in {"CONNECTING", "OPEN"}

\* A socket of client c went down and its 'close' event is still to come.
ClosePending(c) ==
    \E s \in DOMAIN sockets : sockets[s].client = c /\ sockets[s].readyState = "CLOSING"

\* C23: until stop() is called, a client is never left disconnected with no
\* attempt pending: its connection is up or coming up, or the 'close' event
\* of its socket is still to come, or a reconnect timer is set; every 'close'
\* event sets such a timer, of a delay of at most a minute, however many
\* attempts were made; a timer that
\* fires for a client that is neither connected nor connecting creates a new
\* socket for it; and a client whose connection went down is connecting
\* again later (unless stop() is called, or no further socket can be created
\* in this model).
C23_NeverGivesUp ==
    /\ [](shouldReconnect =>
            \A c \in DOMAIN clients :
               Alive(c) \/ ClosePending(c) \/ reconnectTimers[c] > 0)
    /\ [][(lastOp'.op = "ws close" /\ shouldReconnect)
            => LET c == sockets[lastOp'.arg].client
               IN  /\ reconnectTimers'[c] = reconnectTimers[c] + 1
                   /\ ReconnectDelay(clients'[c].reconnectAttempts) \in 1..60000]_vars
    /\ [][(lastOp'.op = "reconnect" /\ shouldReconnect)
            => LET c == lastOp'.arg
               IN  IF clients[c].isConnected \/ clients[c].isConnecting
                   THEN Alive(c) \/ ClosePending(c)
                   ELSE /\ Len(sockets') = Len(sockets) + 1
                        /\ sockets'[Len(sockets')] = NewSocket(c)
                        /\ clients'[c].ws = Len(sockets')]_vars
    /\ \A c \in 0..(wsConnections - 1) :
          (c \in DOMAIN clients /\ ~Alive(c))
          ~> \/ ~shouldReconnect
             \/ Len(sockets) = MaxSockets
             \/ (c \in DOMAIN clients /\ clients[c].isConnecting /\ Alive(c))

\* A client's first socket closed, the socket of its first reconnection failed
\* while connecting and closed too, beyond wsMaxReconnectAttempts, and the
\* timer of the slow interval has fired: the client is connecting again.
C23_Witness ==
    /\ shouldReconnect
    /\ \E c \in DOMAIN clients :
          /\ clients[c].reconnectAttempts > wsMaxReconnectAttempts
          /\ clients[c].isConnecting
          /\ Cardinality({ s \in DOMAIN sockets :
                              sockets[s].client = c /\ sockets[s].readyState = "CLOSED" }) >= 2
    /\ lastOp.op = "reconnect"
    /\ lastOp.result = "connecting"

\* ---- stop() of the realtime manager
\* C22: when stop() of the realtime manager returns, no flush is in flight and
\* every update that was in the buffer when stop() was called is in the
\* snapshot of a flush, the one stop() started or the one that was in flight
\* when it was called.
C22_StopDrainsBuffer ==
    [][(realtime.stop # "returned" /\ realtime'.stop = "returned")
         => /\ ~isFlushingPrices'
            /\ \A i \in 1..Len(realtime'.atStop) :
                  realtime'.atStop[i] \in Range(realtime'.submitted)]_vars

\* ---- stop() of the orchestrator
\* The step starts a batch sync, an expiration or CLOB audit, a trades sync or
\* a retention sweep: the first step of syncMarkets, syncEvents, syncAllTrades
\* (a call dropped under the lock included), runExpirationAudit,
\* auditClobTradability or runCleanup, which only the timers call here.
StartedByTimer ==
    \/ /\ lastOp'.op \in {"syncMarkets", "syncEvents", "syncAllTrades"}
       /\ lastOp'.result \in {"begin", "dropped"}
    \/ lastOp'.op = "runExpirationAudit"
    \/ /\ lastOp'.op = "auditClobTradability"
       /\ lastOp'.result \in {"pass1", "nothing to check"}
    \/ /\ lastOp'.op = "runCleanup"
       /\ cleanup'.sweeps = cleanup.sweeps + 1

\* C21: once stop() of the orchestrator has returned, no timer starts a batch
\* sync, an audit, a trades sync or a retention sweep any more, whether stop()
\* was called after start() completed, shortly after it, or while start() was
\* still in its initial sync.
C21_NothingStartsAfterStop ==
    [][orchestrator.stop = "returned" => ~StartedByTimer]_vars
\* --------------------------------------------------------------------- C24
\* C24: a step of the realtime flush changes no event row and no link, adds and
\* removes no market row, changes no field of a market row other than
\* outcomePrices (closed, archived, active, eventId and the rest stay as they
\* are), and at most appends one price sample.
FlushStep == lastOp'.op \in {"flushPrices", "insert price_history"}

C24_FlushWritesPricesOnly ==
    [][ FlushStep =>
          /\ events' = events
          /\ eventMarketPairs' = eventMarketPairs
          /\ DOMAIN markets' = DOMAIN markets
          /\ \A m \in DOMAIN markets :
                [markets'[m] EXCEPT !.outcomePrices = markets[m].outcomePrices] = markets[m]
          /\ priceHistory \sqsubseteq priceHistory'
          /\ BagCardinality(priceHistory') <= BagCardinality(priceHistory) + 1 ]_vars

\* The flush has updated the prices of a market that the expiration audit
\* deactivated in the meantime.
C24_Witness ==
    /\ lastOp.op = "flushPrices"
    /\ lastOp.result = "ok"
    /\ \E m \in DOMAIN markets :
          /\ ~markets[m].active
          /\ 40 \in Range(markets[m].outcomePrices)


\* --------------------------------------------------------------------- C25
\* The linked markets of event e, and the orphan-event statement having run.
MarketsOf(e) == { m \in DOMAIN markets : markets[m].eventId = e }

OrphanAuditStep == lastOp'.op = "auditEventsWithNoActiveMarkets"

\* C25 as stated: after the orphan-event statement of the expiration audit,
\* every event that was active and not closed and had no live linked market,
\* an event with no linked market at all included, has active = FALSE.
C25_OrphansDeactivated ==
    [][ OrphanAuditStep =>
          \A e \in DOMAIN events :
              ( /\ events[e].active /\ ~events[e].closed
                /\ \A m \in MarketsOf(e) : ~IsLive(markets[m]) )
              => ~events'[e].active ]_vars

\* C25 amended: after the orphan-event statement, every event that was active
\* and not closed and had at least one linked market, none of them live, has
\* active = FALSE with its other fields as they were; every other event, an
\* event with no linked market at all included, is left as it was.
C25_LinkedOrphansDeactivated ==
    [][ OrphanAuditStep =>
          /\ DOMAIN events' = DOMAIN events
          /\ markets' = markets
          /\ \A e \in DOMAIN events :
                IF /\ events[e].active /\ ~events[e].closed
                   /\ MarketsOf(e) # {}
                   /\ \A m \in MarketsOf(e) : ~IsLive(markets[m])
                THEN events'[e] = [events[e] EXCEPT !.active = FALSE]
                ELSE events'[e] = events[e] ]_vars

\* The statement has deactivated an event whose only linked market is not
\* live while the event itself was reported open.
C25_Witness ==
    /\ lastOp.op = "auditEventsWithNoActiveMarkets"
    /\ lastOp.arg # {}
    /\ \E e \in lastOp.arg :
          /\ e \in DOMAIN events
          /\ ~events[e].active /\ ~events[e].closed
          /\ MarketsOf(e) # {}


\* --------------------------------------------------------------------- C26
\* A step of the CLOB audit that probed markets, and the step of its UPDATE of
\* the markets.
ProbeStep ==
    /\ lastOp'.op = "auditClobTradability"
    /\ lastOp'.result \in {"pass1", "pass1b", "pass2"}

CloseMarketsStep ==
    /\ lastOp'.op = "auditClobTradability"
    /\ lastOp'.result = "closeMarkets"

\* The probe succeeded and reported closed = true, accepting_orders = false or
\* enable_order_book = false.
ReportedClosed(answer) ==
    /\ ~answer.threw
    /\ answer.closed = "true" \/ answer.accepting_orders = "false"
       \/ answer.enable_order_book = "false"

CloseEventsStep ==
    /\ lastOp'.op = "auditClobTradability"
    /\ lastOp'.result = "closeEvents"

ClobAuditStep == lastOp'.op = "auditClobTradability"

\* Event e has a linked market that is active, not closed and not archived.
HasLiveMarket(e) == \E m \in MarketsOf(e) : IsLive(markets[m])

\* Event e is linked to a market this audit closed.
LinkedToClosed(e) ==
    \E m \in audit.closedMarketIds \cap DOMAIN markets : markets[m].eventId = e

\* C27: the events UPDATE of a CLOB audit that closed markets sets closed = TRUE,
\* active = FALSE on every event that is linked to a market the audit closed and
\* has no live linked market left; it leaves every event that still has a live
\* linked market as it was, and does nothing to an event but close it; no
\* other step of the audit changes an event.
C27_EventsFollowMarkets ==
    [][ /\ CloseEventsStep =>
             /\ audit.closedMarketIds # {}
             /\ DOMAIN events' = DOMAIN events
             /\ \A e \in DOMAIN events :
                   /\ (LinkedToClosed(e) /\ ~HasLiveMarket(e))
                        => events'[e].closed /\ ~events'[e].active
                   /\ HasLiveMarket(e) => events'[e] = events[e]
                   /\ events'[e] \in { events[e],
                                       [events[e] EXCEPT !.closed = TRUE, !.active = FALSE] }
        /\ (ClobAuditStep /\ ~CloseEventsStep) => events' = events ]_vars

\* The audit has closed the last live market of an event and then the event,
\* while another event that kept its live market is still open.
C27_Witness ==
    /\ lastOp.op = "auditClobTradability"
    /\ lastOp.result = "closeEvents"
    /\ \E e \in lastOp.arg :
          /\ e \in DOMAIN events
          /\ events[e].closed /\ ~events[e].active
          /\ MarketsOf(e) # {}
          /\ ~HasLiveMarket(e)
    /\ \E e \in DOMAIN events : HasLiveMarket(e) /\ ~events[e].closed


\* --------------------------------------------------------------------- C28
\* The audit stands between its two UPDATEs, and the UPDATE of the events still
\* has an event to close: markets are closed and their event, with no live
\* market left, is open.
BetweenTheUpdates ==
    /\ audit.pc = "closeEvents"
    /\ ClosedEvents(events, markets, audit.touchedEventIds) # events

\* C28: the write phase of the CLOB audit is one atomic step: from a state in
\* which the markets are closed and their event is not yet, the only step there
\* is is the audit's UPDATE of the events; no step of another task sees this
\* state and no failure leaves it behind.
C28_WritePhaseAtomic ==
    [][ BetweenTheUpdates => CloseEventsStep ]_vars


\* --------------------------------------------------------------------- C30
\* Pass 2 of the CLOB audit has run.
Pass2Step ==
    /\ lastOp'.op = "auditClobTradability"
    /\ lastOp'.result = "pass2"

\* C30: pass 2 probes every market that is still open (active, not closed, not
\* archived), has a condition id, belongs to an event in which passes 1 and 1b
\* found a market closed, and was not probed by these passes.
C30_Pass2ProbesAllOpen ==
    [][ Pass2Step =>
          \A m \in HasCondition(markets, OpenOfEvents(markets, audit.touchedEventIds))
                   \ audit.checked :
              m \in Range(lastOp'.arg.probes) ]_vars


\* --------------------------------------------------------------------- C29
\* A batch upsert stands between its two statements: the page is upserted and
\* a row of it does not carry the search vector the method computes for it.
BetweenTheStatements(e) ==
    /\ search.call[e] # {}
    /\ \E id \in search.call[e] :
          search[e][id].searchVector # << BatchVector(e, search[e][id]) >>

\* C29: the upsert of a page and the recomputation of the search vectors of its
\* rows are one atomic step: from a state in which the page is upserted and a
\* row of it has another search vector than the recomputed one, the only step
\* there is is the recomputation of that page; no search and no other task
\* sees this state, and no failure leaves it behind.
C29_PageAppliedAtomically ==
    [][ \A e \in {"events", "markets"} :
          BetweenTheStatements(e) =>
              /\ lastOp'.op = "upsertBatch"
              /\ lastOp'.result = "search vectors"
              /\ lastOp'.arg = e ]_vars


\* --------------------------------------------------------------------- C31
\* A call of flushPrices has passed its guards; a call has returned at a guard;
\* a flush has ended.
FlushBegan == lastOp'.op = "flushPrices" /\ lastOp'.result = "begin"

FlushSkipped == lastOp'.op = "flushPrices" /\ lastOp'.result = "skipped"

FlushEnded == lastOp'.op = "flushPrices" /\ lastOp'.result \in {"ok", "error"}

\* stop() has returned without waiting: its flushPrices returned at a guard.
StopSkipped == lastOp'.op = "stop" /\ lastOp'.result = "returned" /\ realtime.stop = "idle"

\* C31: the flag is set exactly while a flush is in flight; a call of
\* flushPrices passes the guards only while no flush is in flight; a call made
\* by the timer or by stop() while a flush is in flight returns and leaves the
\* tables, the buffer and the flush in flight as they are; when a flush ends,
\* with success or with an error, the flag is FALSE.
C31_FlushesSerialized ==
    /\ [](isFlushingPrices <=> flush.pc # "idle")
    /\ [][ FlushBegan => ~isFlushingPrices /\ flush.pc = "idle" ]_vars
    /\ [][ (FlushSkipped \/ StopSkipped) =>
              /\ isFlushingPrices' = isFlushingPrices
              /\ UNCHANGED <<markets, events, priceHistory, priceBuffer, flush>> ]_vars
    /\ [][ FlushEnded => ~isFlushingPrices' /\ flush'.pc = "idle" ]_vars

\* The timer fired during a flush that had read its market and was writing:
\* the call returned at the flag.
C31_Witness ==
    /\ lastOp.op = "flushPrices"
    /\ lastOp.result = "skipped"
    /\ lastOp.arg = "skip"
    /\ isFlushingPrices
    /\ flush.pc \in {"insert", "update"}


\* --------------------------------------------------------------------- C32
HandleStep == lastOp'.op = "handleMessage"

\* The elements of a price_changes array that carry a token id the map knows and
\* a price that is a number.
Taken(changes, map) ==
    { i \in 1..Len(changes) :
        /\ changes[i].asset_id # ""
        /\ changes[i].price # <<>>
        /\ changes[i].asset_id \in DOMAIN map }

\* C32: the buffer never holds two entries of one token; a frame in which no
\* change names a tracked token with a numeric price leaves the buffer as it is;
\* after any other frame the entry of each token named is the last such change
\* of the frame, with the market the map gave on arrival, and every other entry
\* is as before; only handleMessage adds to the buffer or changes an entry.
C32_LatestPriceBuffered ==
    /\ [](\A i, j \in 1..Len(priceBuffer) :
            priceBuffer[i].tokenId = priceBuffer[j].tokenId => i = j)
    /\ [][ HandleStep =>
              LET changes == lastOp'.arg
                  taken == Taken(changes, tokenToMarket)
                  named == { changes[i].asset_id : i \in taken }
              IN  /\ taken = {} => priceBuffer' = priceBuffer
                  /\ \A i \in taken :
                        (\A j \in taken : changes[j].asset_id = changes[i].asset_id => j <= i)
                        => \E k \in 1..Len(priceBuffer') :
                              priceBuffer'[k] = [ tokenId |-> changes[i].asset_id,
                                                  marketId |-> tokenToMarket[changes[i].asset_id],
                                                  price |-> changes[i].price[1],
                                                  timestamp |-> now ]
                  /\ \A k \in 1..Len(priceBuffer') :
                        priceBuffer'[k].tokenId \notin named
                        => \E l \in 1..Len(priceBuffer) : priceBuffer[l] = priceBuffer'[k]
                  /\ { priceBuffer'[k].tokenId : k \in 1..Len(priceBuffer') }
                        = { priceBuffer[k].tokenId : k \in 1..Len(priceBuffer) } \cup named ]_vars
    /\ [][ priceBuffer' # priceBuffer /\ ~HandleStep =>
              /\ lastOp'.op = "flushPrices"
              /\ \A k \in 1..Len(priceBuffer') :
                    \E l \in 1..Len(priceBuffer) : priceBuffer[l] = priceBuffer'[k] ]_vars

\* The second frame has replaced the price of t1 buffered by the first and left
\* the entry of t3 alone, and the entry of t1 still names market m1 although the
\* reloaded map no longer tracks t1.
C32_Witness ==
    /\ received = 2
    /\ Len(priceBuffer) = 2
    /\ priceBuffer[1].tokenId = "t1"
    /\ priceBuffer[1].price = 42
    /\ priceBuffer[1].marketId = "m1"
    /\ priceBuffer[1].timestamp = 0
    /\ priceBuffer[2].tokenId = "t3"
    /\ "t1" \notin DOMAIN tokenToMarket


\* --------------------------------------------------------------------- C33
\* The samples the backfill is to write for one history point.
PointSamples(marketId, tokenIds, point) ==
    LET first == [ marketId |-> marketId, tokenId |-> tokenIds[1], timestamp |-> point.t,
                   price |-> point.p, source |-> "clob" ]
    IN  IF Len(tokenIds) = 2
        THEN { first, [first EXCEPT !.tokenId = tokenIds[2], !.price = One - point.p] }
        ELSE { first }

\* C33: each INSERT of a backfill writes, for the points of its batch, the
\* sample of the first token at p, and for a market of exactly two tokens also
\* the sample of the second at 1 - p, all with source 'clob', and nothing else
\* (a sample whose key is stored already is skipped); a call for a market
\* without tokens or for an id in no row ends at once and writes nothing.
C33_BackfillSamples ==
    /\ [][ backfill.pc = "insert" /\ backfill'.pc # "insert" /\ lastOp'.op # "insert price_history"
            => priceHistory' = priceHistory ]_vars
    /\ [][ lastOp'.op = "insert price_history" /\ backfill.pc = "insert" =>
              LET n == IF backfillBatchSize < Len(backfill.history)
                       THEN backfillBatchSize ELSE Len(backfill.history)
                  expected == UNION { PointSamples(backfill.marketId, backfill.tokenIds,
                                                   backfill.history[i]) : i \in 1..n }
              IN  /\ BagToSet(priceHistory') \ BagToSet(priceHistory) \subseteq expected
                  /\ \A r \in expected : HasSampleKey(priceHistory', r)
                  /\ \A r \in BagToSet(priceHistory) :
                        CopiesIn(r, priceHistory') = CopiesIn(r, priceHistory) ]_vars
    /\ [][ lastOp'.op = "backfillMarketHistory" /\ lastOp'.result = "nothing to do" =>
              /\ priceHistory' = priceHistory
              /\ backfill'.pc = "idle" ]_vars
    /\ [][ lastOp'.op = "backfillMarketHistory" /\ lastOp'.result = "read" =>
              /\ lastOp'.arg \in DOMAIN markets
              /\ markets[lastOp'.arg].outcomeTokenIds # <<>> ]_vars
    /\ [](\A r \in BagToSet(priceHistory) :
            /\ r.source = "clob"
            /\ r.marketId \in {"m1", "m2", "m3"})

\* Backfills of the three markets with tokens have written the point (0, 40):
\* two samples for m1, one for m2 and one, of t4, for m3.
C33_Witness ==
    /\ backfill.pc = "idle"
    /\ { r \in BagToSet(priceHistory) : r.timestamp = 0 } =
          { [ marketId |-> "m1", tokenId |-> "t1", timestamp |-> 0, price |-> 40, source |-> "clob" ],
            [ marketId |-> "m1", tokenId |-> "t2", timestamp |-> 0, price |-> 60, source |-> "clob" ],
            [ marketId |-> "m2", tokenId |-> "t3", timestamp |-> 0, price |-> 40, source |-> "clob" ],
            [ marketId |-> "m3", tokenId |-> "t4", timestamp |-> 0, price |-> 40, source |-> "clob" ] }
    /\ lastOp.op = "backfillMarketHistory"
    /\ lastOp.result = "nothing to do"
    /\ lastOp.arg \in {"m0", "m9"}


\* --------------------------------------------------------------------- C34
\* No step creates a socket, marks a client as connecting or arms a reconnect
\* timer.
NoNewAttempt ==
    /\ DOMAIN sockets' = DOMAIN sockets
    /\ \A c \in DOMAIN clients :
          /\ clients'[c].isConnecting => clients[c].isConnecting
          /\ reconnectTimers'[c] <= reconnectTimers[c]

\* No socket opens and no frame is sent.
NoFrameSent ==
    \A s \in DOMAIN sockets :
       /\ sockets'[s].sent = sockets[s].sent
       /\ sockets'[s].readyState = "OPEN" => sockets[s].readyState = "OPEN"

RECURSIVE FrameTokens(_)
FrameTokens(frames) ==
    IF frames = <<>> THEN <<>> ELSE Head(frames).assets_ids \o FrameTokens(Tail(frames))

RECURSIVE Flat(_)
Flat(batches) == IF batches = <<>> THEN <<>> ELSE Head(batches) \o Flat(Tail(batches))

IsPrefix(a, b) == Len(a) <= Len(b) /\ a = SubSeq(b, 1, Len(a))

\* C35 (token universe constant): the open handler of a client with a non-empty
\* shard sends one frame, of the initial shape, with the first wsBatchSize
\* tokens of the shard, and queues the whole shard; on every socket the first
\* frame is the only one of the initial shape, every frame carries between 1
\* and wsBatchSize tokens, every frame but the last is full, no token is sent
\* twice, and the frames sent so far are a prefix of the shard as it was at the
\* open; when the pacing ends on an open socket the whole shard has been sent;
\* a socket that has gone down sends nothing more and does not open again.
C35_OpenSendsShard ==
    /\ [][ lastOp'.op = "ws open" =>
              LET s == lastOp'.arg
                  shard == clients[sockets[s].client].assignedTokens
                  first == IF Len(shard) < wsBatchSize THEN Len(shard) ELSE wsBatchSize
              IN  IF shard = <<>>
                  THEN sockets'[s].sent = <<>> /\ sockets'[s].chains = <<>>
                  ELSE /\ sockets'[s].sent =
                             << [ type |-> "market", operation |-> "",
                                  assets_ids |-> SubSeq(shard, 1, first) ] >>
                       /\ IF Len(shard) <= wsBatchSize THEN sockets'[s].chains = <<>>
                          ELSE /\ Len(sockets'[s].chains) = 1
                               /\ Flat(sockets'[s].chains[1].batches) = shard ]_vars
    /\ [](\A s \in DOMAIN sockets :
            LET sent == sockets[s].sent
            IN  /\ \A i \in 1..Len(sent) :
                      /\ sent[i].type = "market"
                      /\ sent[i].operation = (IF i = 1 THEN "" ELSE "subscribe")
                      /\ Len(sent[i].assets_ids) \in 1..wsBatchSize
                      /\ i < Len(sent) => Len(sent[i].assets_ids) = wsBatchSize
                /\ \A i, j \in 1..Len(FrameTokens(sent)) :
                      FrameTokens(sent)[i] = FrameTokens(sent)[j] => i = j
                /\ Len(sockets[s].chains) <= 1
                /\ sockets[s].chains # <<>> =>
                      /\ sent # <<>>
                      /\ IsPrefix(FrameTokens(sent), Flat(sockets[s].chains[1].batches)))
    /\ [][ \A s \in DOMAIN sockets :
              /\ sockets[s].chains # <<>> /\ sockets'[s].chains # <<>> =>
                    sockets'[s].chains[1].batches = sockets[s].chains[1].batches
              /\ sockets[s].chains # <<>> /\ sockets'[s].chains = <<>>
                  /\ sockets[s].readyState = "OPEN" =>
                    FrameTokens(sockets'[s].sent) = Flat(sockets[s].chains[1].batches)
              /\ sockets[s].readyState \in {"CLOSING", "CLOSED"} =>
                    sockets'[s].sent = sockets[s].sent /\ sockets'[s].readyState # "OPEN"
              /\ sockets'[s].sent # sockets[s].sent => sockets'[s].readyState = "OPEN" ]_vars

\* One socket has sent its whole shard of three tokens in two frames and its
\* pacing has ended; another went down between its first frame and its second.
C35_Witness ==
    /\ lastOp.op = "sendNext"
    /\ lastOp.result = "done"
    /\ \E s, r \in DOMAIN sockets :
          /\ sockets[s].readyState = "OPEN"
          /\ sockets[s].chains = <<>>
          /\ Len(sockets[s].sent) = 2
          /\ sockets[s].sent[2].operation = "subscribe"
          /\ Len(FrameTokens(sockets[s].sent)) = wsBatchSize + 1
          /\ sockets[r].readyState = "CLOSED"
          /\ sockets[r].client = sockets[s].client
          /\ Len(sockets[r].sent) = 1


\* --------------------------------------------------------------------- C36
\* The handlers that end in publishPricesStatus: open, close and the end of
\* stop().
StatusPublished ==
    \/ lastOp'.op \in {"ws open", "ws close"}
    \/ lastOp'.op = "stop" /\ lastOp'.result = "returned"

AnyConnected(cs) == \E c \in DOMAIN cs : cs[c].isConnected

\* C36: the status published last is 'connected' exactly while some client is
\* connected; an open, a close or the end of stop() issues a write of
\* sync_state[prices] exactly when the status of the clients it leaves differs
\* from the one published last (none at first), and the write carries that
\* status; no other step issues a write.
C36_StatusFollowsClients ==
    /\ []((pricesStatus.lastPublished = "connected") <=> AnyConnected(clients))
    /\ [](pricesStatus.lastPublished \in {NULL, "connected", "disconnected"})
    /\ [][ StatusPublished =>
              LET status == IF AnyConnected(clients') THEN "connected" ELSE "disconnected"
              IN  /\ pricesStatus'.lastPublished = status
                  /\ pricesStatus'.issued =
                        (IF status = pricesStatus.lastPublished THEN "none" ELSE status) ]_vars
    /\ [][ ~StatusPublished => pricesStatus' = pricesStatus ]_vars

\* Both clients were connected and one connection has closed: the status stays
\* 'connected' and the close handler issued no write.
C36_Witness ==
    /\ lastOp.op = "ws close"
    /\ pricesStatus = [ lastPublished |-> "connected", issued |-> "none" ]
    /\ \E c, d \in DOMAIN clients :
          /\ clients[c].isConnected
          /\ ~clients[d].isConnected
          /\ clients[d].reconnectAttempts = 1
          /\ sockets[lastOp.arg].client = d
          /\ sockets[lastOp.arg].sent # <<>>


\* --------------------------------------------------------------------- C37
\* C37: on every socket the first frame sent is of the initial shape, so that
\* no subscribe-operation frame goes out before it, also on a socket that
\* opened with an empty shard and gets its first tokens from a resubscribe.
C37_InitialFrameFirst ==
    \A s \in DOMAIN sockets :
        sockets[s].sent # <<>> => sockets[s].sent[1].operation = ""


\* --------------------------------------------------------------------- C38
\* C38: the UPDATE of a flush leaves outcome_prices of the market as long as it
\* is and changes no entry but those of the tokens the flush carries an update
\* for, whatever was stored since the flush read the row.
C38_FlushKeepsOtherPrices ==
    [][ lastOp'.op = "flushPrices" /\ flush.pc = "update" /\ markets' # markets =>
          LET m == flush.marketUpdates[flush.g].marketId
              updates == flush.marketUpdates[flush.g].priceUpdates
              updated == { updates[i].tokenId : i \in 1..Len(updates) }
          IN  /\ Len(markets'[m].outcomePrices) = Len(markets[m].outcomePrices)
              /\ \A i \in 1..Len(markets[m].outcomePrices) :
                    (i > Len(markets[m].outcomeTokenIds)
                       \/ markets[m].outcomeTokenIds[i] \notin updated)
                    => markets'[m].outcomePrices[i] = markets[m].outcomePrices[i] ]_vars


\* --------------------------------------------------------------------- C39
\* The sockets of client c that are connecting or open.
LiveSockets(socks, c) ==
    { s \in DOMAIN socks : socks[s].client = c /\ socks[s].readyState \in {"CONNECTING", "OPEN"} }

\* C39: a client never has two sockets that are connecting or open, nor two
\* pending reconnect timers, and no socket is created for a client that has
\* one connecting or open, whatever the order of the open, error and close
\* events, the reconnect timers and the resubscribe calls.
C39_OneSocketPerClient ==
    /\ [](\A c \in DOMAIN clients :
            /\ Cardinality(LiveSockets(sockets, c)) <= 1
            /\ reconnectTimers[c] <= 1)
    /\ [][ \A s \in DOMAIN sockets' \ DOMAIN sockets :
              /\ sockets'[s].client \in DOMAIN clients => LiveSockets(sockets, sockets'[s].client) = {}
              /\ LiveSockets(sockets', sockets'[s].client) = {s} ]_vars

\* Every socket the bound allows has been created: a client is connecting on a
\* socket the reconnect timer just created after an earlier socket of its own
\* closed, and the other client waits for its timer.
C39_Witness ==
    /\ Len(sockets) = MaxSockets
    /\ lastOp.op = "reconnect"
    /\ lastOp.result = "connecting"
    /\ \E s \in DOMAIN sockets :
          /\ sockets[s].client = lastOp.arg
          /\ sockets[s].readyState = "CLOSED"
    /\ \E d \in DOMAIN clients :
          /\ d # lastOp.arg
          /\ reconnectTimers[d] = 1
          /\ LiveSockets(sockets, d) = {}

\* ---- the closed pass after an interrupted initial sync
\* The closed items of the catalog that the tables do not hold.
ClosedMissing(e, table) ==
    { catalog[e][i].id : i \in { j \in 1..Len(catalog[e]) : catalog[e][j].closed = "true" } }
        \ DOMAIN table

\* A call of runInitialSync answered by its count query.
InitialSyncBegins == initialSync.pc = "idle" /\ initialSync'.pc = "events"

\* C40: a runInitialSync that begins while the tables lack a closed event or a
\* closed market of the catalog (an earlier closed pass did not run to its end)
\* runs the closed pass: it calls syncEvents and syncMarkets with includeClosed.
C40_ClosedPassRunsAgain ==
    [][ InitialSyncBegins
        /\ (ClosedMissing("events", events) # {} \/ ClosedMissing("markets", markets) # {})
        => initialSync'.isFreshDb ]_vars
====
